---- MODULE Spec2Model ----
(***************************************************************************)
(* A model of pkg/engine/resolve (the GraphQL response resolver): the node *)
(* resolvers, the array executor, the response assembler and the           *)
(* singleflight fetch layer of resolve.go.                                 *)
(*                                                                         *)
(* Byte buffers are sequences of byte chunks (strings): the literals of    *)
(* resolve.go:19-33 and the names and scalar values copied from the plan   *)
(* and from the upstream JSON.  Upstream JSON ([]byte read by jsonparser)  *)
(* is kept in parsed form, a record [t, s, kv, el].                        *)
(***************************************************************************)
EXTENDS Integers, Sequences, FiniteSets, TLC

\* ------------------------------------------------------------------ bounds
MaxItems == 2
NCallers == 3
NFetches == 2
MaxSelections == 5
MaxActions == 3
MaxDepth == 2
MaxApplications == 2
MaxParent == 3

\* ---------------------------------------------------------------- literals
lBrace == "{"
rBrace == "}"
lBrack == "["
rBrack == "]"
comma == ","
colon == ":"
quote == "\""
null == "null"
literalData == "data"
literalErrors == "Errors"
literalMessage == "message"
literalLocations == "locations"
literalPath == "path"

\* ------------------------------------------------------------------ errors
nil == "nil"
errNonNullableFieldValueIsNull == "non Nullable field value is null"
errTypeNameSkipped == "skipped because of __typename condition"
KeyPathNotFoundError == "Key path not found"
MalformedJsonError == "Malformed JSON error"
UnknownValueTypeError == "Unknown value type"

\* -------------------------------------------------------------------- JSON
\* A JSON text as jsonparser sees it: t is the jsonparser.ValueType, s the raw
\* bytes of a scalar (a string's body without its quotes), kv the members of an
\* object in source order, el the elements of an array.
JNull == [t |-> "Null", s |-> "null", kv |-> <<>>, el |-> <<>>]
JStr(x) == [t |-> "String", s |-> x, kv |-> <<>>, el |-> <<>>]
JNum(x) == [t |-> "Number", s |-> x, kv |-> <<>>, el |-> <<>>]
JBool(x) == [t |-> "Boolean", s |-> x, kv |-> <<>>, el |-> <<>>]
JObj(members) == [t |-> "Object", s |-> "", kv |-> members, el |-> <<>>]
JArr(elements) == [t |-> "Array", s |-> "", kv |-> <<>>, el |-> elements]
\* nil / empty bytes
NoData == [t |-> "NotExist", s |-> "", kv |-> <<>>, el |-> <<>>]
\* bytes that are no JSON value: the body of a string handed on without quotes
Unquoted(x) == [t |-> "Unknown", s |-> x, kv |-> <<>>, el |-> <<>>]
KV(k, v) == [k |-> k, v |-> v]

\* searchKeys for one key: the index of the first member named key, 0 if none
RECURSIVE MemberIndex(_, _, _)
MemberIndex(members, key, i) ==
    IF i > Len(members) THEN 0
    ELSE IF members[i].k = key THEN i
    ELSE MemberIndex(members, key, i + 1)

\* jsonparser.Get(data, keys...): [value, dataType, err].  value is the JSON at
\* the path, whose s holds the bytes Get returns for a scalar.
RECURSIVE Get(_, _)
\* Get below the member at index m of an object, 0 meaning the key is absent
GetMember(data, keys, m) ==
    IF m # 0 THEN Get(data.kv[m].v, Tail(keys))
    ELSE [value |-> NoData, dataType |-> "NotExist", err |-> KeyPathNotFoundError]
Get(data, keys) ==
    IF keys = <<>>
    THEN IF data.t = "NotExist"
         THEN [value |-> NoData, dataType |-> "NotExist", err |-> MalformedJsonError]
         ELSE IF data.t = "Unknown"
         THEN [value |-> NoData, dataType |-> "NotExist", err |-> UnknownValueTypeError]
         ELSE [value |-> data, dataType |-> data.t, err |-> nil]
    ELSE IF data.t = "Object"
         THEN GetMember(data, keys, MemberIndex(data.kv, Head(keys), 1))
         ELSE [value |-> NoData, dataType |-> "NotExist", err |-> KeyPathNotFoundError]

\* The JSON text of a value, as byte chunks.
RECURSIVE JsonBytes(_)
RECURSIVE JsonMembers(_, _)
RECURSIVE JsonElements(_, _)
JsonMembers(members, i) ==
    IF i > Len(members) THEN <<>>
    ELSE (IF i > 1 THEN <<comma>> ELSE <<>>)
         \o <<quote, members[i].k, quote, colon>> \o JsonBytes(members[i].v)
         \o JsonMembers(members, i + 1)
JsonElements(elements, i) ==
    IF i > Len(elements) THEN <<>>
    ELSE (IF i > 1 THEN <<comma>> ELSE <<>>)
         \o JsonBytes(elements[i]) \o JsonElements(elements, i + 1)
JsonBytes(v) ==
    CASE v.t = "NotExist" -> <<>>
      [] v.t = "String" -> <<quote, v.s, quote>>
      [] v.t = "Object" -> <<lBrace>> \o JsonMembers(v.kv, 1) \o <<rBrace>>
      [] v.t = "Array" -> <<lBrack>> \o JsonElements(v.el, 1) \o <<rBrack>>
      [] OTHER -> <<v.s>>

\* The bytes jsonparser.Get returns as value: a string without its quotes.
ValueBytes(v) == IF v.t = "String" THEN <<v.s>> ELSE JsonBytes(v)

\* jsonparser.ArrayEach(data, cb, keys...): the values handed to the callback,
\* a string element without its quotes.
ArrayEachItem(v) == IF v.t = "String" THEN Unquoted(v.s) ELSE v

\* the callback's values for what Get found at the path
ArrayEachFound(g) ==
    IF g.err = nil /\ g.dataType = "Array"
    THEN [i \in 1..Len(g.value.el) |-> ArrayEachItem(g.value.el[i])]
    ELSE <<>>
ArrayEach(data, keys) == ArrayEachFound(Get(data, keys))

\* ------------------------------------------------------------------ BufPair
BufPair(d, e) == [Data |-> d, Errors |-> e]
\* getBufPair: a pooled pair, reset when it was released (freeBufPair)
getBufPair == BufPair(<<>>, <<>>)
\* a []byte argument: nil, or the bytes it holds
NilBytes == [isNil |-> TRUE, bytes |-> <<>>]
Bytes(bytes) == [isNil |-> FALSE, bytes |-> bytes]
HasData(b) == Len(b.Data) # 0
HasErrors(b) == Len(b.Errors) # 0

\* writeSafe(err, writer, data) on a bytes.Buffer: the buffer after the call
writeSafe(err, writer, data) == IF err # nil THEN writer ELSE writer \o <<data>>

\* MergeBufPairData: from.Data is drained into to.Data (bytes.Buffer.WriteTo)
MergeBufPairData(from, to, prefixDataWithComma) ==
    IF ~HasData(from)
    THEN [from |-> from, to |-> to, dataWritten |-> 0]
    ELSE [from |-> [from EXCEPT !.Data = <<>>],
          to |-> [to EXCEPT !.Data = (IF prefixDataWithComma THEN @ \o <<comma>> ELSE @)
                                      \o from.Data],
          dataWritten |-> (IF prefixDataWithComma THEN 1 ELSE 0) + Len(from.Data)]

\* Faulty variant for C35: the errors are appended without a separator.
MergeBufPairErrorsUnseparated(from, to) ==
    [from |-> [from EXCEPT !.Errors = <<>>],
     to |-> [to EXCEPT !.Errors = @ \o from.Errors],
     errorsWritten |-> Len(from.Errors)]
MergeBufPairErrors(from, to) ==
    IF ~HasErrors(from)
    THEN [from |-> from, to |-> to, errorsWritten |-> 0]
    ELSE [from |-> [from EXCEPT !.Errors = <<>>],
          to |-> [to EXCEPT !.Errors = (IF HasErrors(to) THEN @ \o <<comma>> ELSE @)
                                        \o from.Errors],
          errorsWritten |-> (IF HasErrors(to) THEN 1 ELSE 0) + Len(from.Errors)]

\* MergeBufPairs, line 1015: the errors after the data (d)
MergeBufPairsErrors(d, e) ==
    [from |-> e.from, to |-> e.to, dataWritten |-> d.dataWritten,
     errorsWritten |-> e.errorsWritten]
MergeBufPairsData(d) == MergeBufPairsErrors(d, MergeBufPairErrors(d.from, d.to))
MergeBufPairs(from, to, prefixDataWithComma) ==
    MergeBufPairsData(MergeBufPairData(from, to, prefixDataWithComma))

\* --------------------------------------------------------------- plan tree
\* A Node of the plan: kind is its Go type, Item holds 0 or 1 nodes, Fetch is
\* FetchNone (a nil Fetch), a SingleFetch or a ParallelFetch.
FetchNone == [FetchKind |-> "nil", Fetches |-> <<>>]
FetchSingle(f) == [FetchKind |-> "Single", Fetches |-> <<f>>]
FetchParallel(fs) == [FetchKind |-> "Parallel", Fetches |-> fs]
Node(kind, nullable, path, fieldSets, fetch, item, async) ==
    [kind |-> kind, Nullable |-> nullable, Path |-> path, FieldSets |-> fieldSets,
     Fetch |-> fetch, Item |-> item, ResolveAsynchronous |-> async]
Object(nullable, path, fieldSets, fetch) ==
    Node("Object", nullable, path, fieldSets, fetch, <<>>, FALSE)
Array(nullable, path, async, item) ==
    Node("Array", nullable, path, <<>>, FetchNone, <<item>>, async)
Scalar(kind, path, nullable) == Node(kind, nullable, path, <<>>, FetchNone, <<>>, FALSE)
String(path, nullable) == Scalar("String", path, nullable)
Integer(path, nullable) == Scalar("Integer", path, nullable)
Float(path, nullable) == Scalar("Float", path, nullable)
Boolean(path, nullable) == Scalar("Boolean", path, nullable)
Null == Scalar("Null", <<>>, FALSE)
EmptyObject == Scalar("EmptyObject", <<>>, FALSE)
EmptyArray == Scalar("EmptyArray", <<>>, FALSE)
\* OnTypeName is <<>> (nil) or <<T>>
FieldSet(onTypeName, bufferID, hasBuffer, fields) ==
    [OnTypeName |-> onTypeName, BufferID |-> bufferID, HasBuffer |-> hasBuffer,
     Fields |-> fields]
Field(name, value) == [Name |-> name, Value |-> value]

\* The outcome of a resolver call: the error it returns, the BufPair it wrote
\* into as the call leaves it, and (a history variable) the record of the
\* Object and Array calls made below and including it.
Ret(err, buf, log) == [err |-> err, buf |-> buf, log |-> log]
\* One Object or Array call: the node and the data it was called with, pre the
\* number of chunks its data buffer held at the call, childErr the error a
\* field value or an item returned to it (nil if none did), err and Data what
\* the call returned and left in the data buffer.
LogEntry(node, st, childErr, err, buf) ==
    [node |-> node, data |-> st.data, pre |-> st.pre, kind |-> node.kind,
     Nullable |-> node.Nullable, childErr |-> childErr, err |-> err, Data |-> buf.Data]
\* what a call records of its arguments
Called(data, buf) == [data |-> data, pre |-> Len(buf.Data)]

\* -------------------------------------------------------- scalars and leaves
resolveNull(buf) == [buf EXCEPT !.Data = writeSafe(nil, @, null)]

resolveEmptyArray(buf) ==
    [buf EXCEPT !.Data = writeSafe(nil, writeSafe(nil, @, lBrack), rBrack)]

resolveEmptyObject(buf) ==
    [buf EXCEPT !.Data = writeSafe(nil, writeSafe(nil, @, lBrace), rBrace)]

\* resolveInteger, resolveFloat (jsonparser.Number) and resolveBoolean
\* g is what jsonparser.Get returned for the node's path
resolveRawFound(node, jsonType, g, buf) ==
    IF g.err # nil \/ g.dataType # jsonType
    THEN IF ~node.Nullable
         THEN Ret(errNonNullableFieldValueIsNull, buf, <<>>)
         ELSE Ret(nil, resolveNull(buf), <<>>)
    ELSE Ret(nil, [buf EXCEPT !.Data = writeSafe(nil, @, g.value.s)], <<>>)
resolveRaw(node, jsonType, data, buf) ==
    resolveRawFound(node, jsonType, Get(data, node.Path), buf)

resolveInteger(integer, data, integerBuf) == resolveRaw(integer, "Number", data, integerBuf)
resolveFloat(floatValue, data, integerBuf) == resolveRaw(floatValue, "Number", data, integerBuf)
resolveBoolean(boolean, data, booleanBuf) == resolveRaw(boolean, "Boolean", data, booleanBuf)

resolveStringFound(str, data, g, stringBuf) ==
    IF g.err # nil \/ g.dataType # "String"
    THEN IF ~str.Nullable
         THEN Ret(errNonNullableFieldValueIsNull, stringBuf, <<>>)
         ELSE Ret(nil, resolveNull(stringBuf), <<>>)
    ELSE IF data.t = "NotExist" /\ ~str.Nullable
    THEN Ret(errNonNullableFieldValueIsNull, stringBuf, <<>>)
    ELSE Ret(nil, [stringBuf EXCEPT !.Data =
             writeSafe(nil, writeSafe(nil, writeSafe(nil, @, quote), g.value.s), quote)],
             <<>>)
\* Faulty variant for C38: the string's bytes are written without quotes.
resolveStringUnquoted(str, data, stringBuf) == resolveRaw(str, "String", data, stringBuf)
resolveString(str, data, stringBuf) ==
    resolveStringFound(str, data, Get(data, str.Path), stringBuf)

\* ------------------------------------------------------------- fetch layer
\* A DataSource as the mock of a test: Load writes data (JSON, NoData for
\* nothing) and errors (error objects, no brackets) and returns err.
DataSource(id, data, errors, err) ==
    [UniqueIdentifier |-> id, data |-> data, errors |-> errors, err |-> err]
StaticSegment(bytes) ==
    [SegmentType |-> "Static", Data |-> bytes, VariableSource |-> "none",
     VariableSourcePath |-> <<>>]
VariableSegment(source, path) ==
    [SegmentType |-> "Variable", Data |-> "", VariableSource |-> source,
     VariableSourcePath |-> path]
SingleFetch(bufferId, dataSource, disallowSingleFlight, inputTemplate) ==
    [BufferId |-> bufferId, DataSource |-> dataSource,
     DisallowSingleFlight |-> disallowSingleFlight, InputTemplate |-> inputTemplate]
\* Context: the variables, and the two choices the Go runtime makes during a
\* request: sched, the order in which parallel workers finish, and mapOrder,
\* the order in which range walks the buffers of a resultSet.
Context(variables, sched, mapOrder) ==
    [Variables |-> variables, sched |-> sched, mapOrder |-> mapOrder]

\* InputTemplate.Render from segment j on: [err, out]
RECURSIVE Render(_, _, _, _, _)
\* a variable segment, g being what jsonparser.Get found for its path
renderVariable(segments, j, ctx, data, preparedInput, g) ==
    IF g.err # nil
    THEN [err |-> g.err, out |-> preparedInput]
    ELSE Render(segments, j + 1, ctx, data, preparedInput \o ValueBytes(g.value))
renderSegment(segments, j, ctx, data, preparedInput, seg) ==
    CASE seg.SegmentType = "Static" ->
           Render(segments, j + 1, ctx, data, preparedInput \o <<seg.Data>>)
      [] seg.SegmentType = "Variable" ->
           IF seg.VariableSource \notin {"Object", "Context"}
           THEN [err |-> "InputTemplate.Render: cannot resolve variable",
                 out |-> preparedInput]
           ELSE renderVariable(segments, j, ctx, data, preparedInput,
                    Get(IF seg.VariableSource = "Object" THEN data ELSE ctx.Variables,
                        seg.VariableSourcePath))
      [] OTHER -> Render(segments, j + 1, ctx, data, preparedInput)
Render(segments, j, ctx, data, preparedInput) ==
    IF j > Len(segments) THEN [err |-> nil, out |-> preparedInput]
    ELSE renderSegment(segments, j, ctx, data, preparedInput, segments[j])

\* DataSource.Load into a BufPair of a resultSet, whose Data is kept parsed
Load(dataSource, ctx, input, bufPair) ==
    [err |-> dataSource.err,
     buf |-> [Data |-> IF dataSource.data.t = "NotExist" THEN bufPair.Data
                       ELSE dataSource.data,
              Errors |-> bufPair.Errors \o dataSource.errors]]

\* a pooled BufPair handed to a resultSet
getFetchBuf == [Data |-> NoData, Errors |-> <<>>]

\* prepareSingleFetch: [err, set, preparedInput]
\* lines 602-604, r being what Render returned
prepareSingleFetchRendered(fetch, set, r) ==
    [err |-> r.err,
     set |-> [id \in DOMAIN set \cup {fetch.BufferId} |->
                IF id = fetch.BufferId THEN getFetchBuf ELSE set[id]],
     preparedInput |-> r.out]
prepareSingleFetch(ctx, fetch, data, set) ==
    prepareSingleFetchRendered(fetch, set, Render(fetch.InputTemplate, 1, ctx, data, <<>>))

\* resolveSingleFetch with the singleflight loader off (New leaves
\* EnableSingleFlightLoader false) or disallowed: [err, buf]
resolveSingleFetchDirect(ctx, fetch, preparedInput, buf) ==
    Load(fetch.DataSource, ctx, preparedInput, buf)

\* the prepare loop of a ParallelFetch: [err, set, preparedInputs]
RECURSIVE prepareAll(_, _, _, _, _, _)
\* lines 577-581: after fetch i was prepared (p)
prepareAllNext(ctx, fetches, i, data, preparedInputs, p) ==
    IF p.err # nil
    THEN [err |-> p.err, set |-> p.set, preparedInputs |-> preparedInputs]
    ELSE prepareAll(ctx, fetches, i + 1, data, p.set,
                    Append(preparedInputs, p.preparedInput))
prepareAll(ctx, fetches, i, data, set, preparedInputs) ==
    IF i > Len(fetches)
    THEN [err |-> nil, set |-> set, preparedInputs |-> preparedInputs]
    ELSE prepareAllNext(ctx, fetches, i, data, preparedInputs,
                        prepareSingleFetch(ctx, fetches[i], data, set))

\* the workers of a ParallelFetch, each into the BufPair of its own BufferId
\* (the BufferIds of a batch are distinct); their errors are dropped
RECURSIVE fetchAll(_, _, _, _, _)
fetchAll(ctx, fetches, i, preparedInputs, set) ==
    IF i > Len(fetches) THEN set
    ELSE fetchAll(ctx, fetches, i + 1, preparedInputs,
                  [set EXCEPT ![fetches[i].BufferId] =
                      resolveSingleFetchDirect(ctx, fetches[i], preparedInputs[i], @).buf])

\* resolveFetch: [err, set]
\* lines 566-571: a SingleFetch after its input was prepared (p) and after
\* resolveSingleFetch returned (r)
singleFetchResolved(f, p, r) ==
    [err |-> r.err, set |-> [p.set EXCEPT ![f.BufferId] = r.buf]]
singleFetchPrepared(ctx, f, p) ==
    IF p.err # nil THEN [err |-> p.err, set |-> p.set]
    ELSE singleFetchResolved(f, p,
             resolveSingleFetchDirect(ctx, f, p.preparedInput, p.set[f.BufferId]))
\* lines 583-596: a ParallelFetch after its inputs were prepared (p)
parallelFetchPrepared(ctx, fetch, p) ==
    IF p.err # nil THEN [err |-> p.err, set |-> p.set]
    ELSE [err |-> nil, set |-> fetchAll(ctx, fetch.Fetches, 1, p.preparedInputs, p.set)]
resolveFetch(ctx, fetch, data, set) ==
    CASE fetch.FetchKind = "Single" ->
           singleFetchPrepared(ctx, fetch.Fetches[1],
               prepareSingleFetch(ctx, fetch.Fetches[1], data, set))
      [] fetch.FetchKind = "Parallel" ->
           parallelFetchPrepared(ctx, fetch,
               prepareAll(ctx, fetch.Fetches, 1, data, set, <<>>))
      [] OTHER -> [err |-> nil, set |-> set]

\* ----------------------------------------------------------- node resolvers
RECURSIVE resolveNode(_, _, _, _)
RECURSIVE objectFields(_, _, _, _, _, _, _, _)
RECURSIVE arrayItemsSynchronous(_, _, _, _, _)
RECURSIVE mergeSetErrors(_, _, _, _)
RECURSIVE mergeItems(_, _, _, _)

\* the keys among ids in the order given
InOrder(order, ids) == SelectSeq(order, LAMBDA x : x \in ids)

\* resolveObject, lines 487-489: the errors of the resultSet's buffers merged
\* into the object's, ids being the order of the range over the map
mergeSetErrors(ids, k, set, objectBuf) ==
    IF k > Len(ids) THEN objectBuf
    ELSE mergeSetErrors(ids, k + 1, set, MergeBufPairErrors(set[ids[k]], objectBuf).to)

\* resolveObject, lines 498-506: the data a FieldSet reads
FieldSetData(fieldSet, hasSet, set, data) ==
    IF hasSet /\ fieldSet.HasBuffer
    THEN IF fieldSet.BufferID \in DOMAIN set THEN set[fieldSet.BufferID].Data ELSE NoData
    ELSE data

\* Faulty variant for C8: skips the FieldSets whose type condition holds.
TypeNameSkipInverted(fieldSet, fieldSetData) ==
    /\ fieldSet.OnTypeName # <<>>
    /\ ValueBytes(Get(fieldSetData, <<"__typename">>).value) = fieldSet.OnTypeName

\* resolveObject, lines 508-514: the FieldSet is skipped
TypeNameSkip(fieldSet, fieldSetData) ==
    /\ fieldSet.OnTypeName # <<>>
    /\ ValueBytes(Get(fieldSetData, <<"__typename">>).value) # fieldSet.OnTypeName

\* resolveObject, lines 541-550: after the loops
objectEnd(object, st) ==
    IF st.first
    THEN IF ~object.Nullable
         THEN IF st.typeNameSkip
              THEN Ret(errTypeNameSkipped, st.objectBuf,
                       Append(st.log, LogEntry(object, st, nil, errTypeNameSkipped, st.objectBuf)))
              ELSE Ret(errNonNullableFieldValueIsNull, st.objectBuf,
                       Append(st.log, LogEntry(object, st, nil,
                                               errNonNullableFieldValueIsNull, st.objectBuf)))
         ELSE Ret(nil, resolveNull(st.objectBuf),
                  Append(st.log, LogEntry(object, st, nil, nil, resolveNull(st.objectBuf))))
    ELSE LET b == [st.objectBuf EXCEPT !.Data = writeSafe(nil, @, rBrace)]
         IN  Ret(nil, b, Append(st.log, LogEntry(object, st, nil, nil, b)))

\* Faulty variant for C2: writes null without resetting the buffer first.
objectFieldFailedKeepsBytes(object, err, st) ==
    IF err = errNonNullableFieldValueIsNull /\ object.Nullable
    THEN LET b == [st.objectBuf EXCEPT !.Data = writeSafe(nil, @, null)]
         IN  Ret(nil, b, Append(st.log, LogEntry(object, st, err, nil, b)))
    ELSE Ret(err, st.objectBuf, Append(st.log, LogEntry(object, st, err, err, st.objectBuf)))

\* resolveObject, lines 530-537: a field value returned err
objectFieldFailed(object, err, st) ==
    IF err = errNonNullableFieldValueIsNull /\ object.Nullable
    THEN LET b == [st.objectBuf EXCEPT !.Data = writeSafe(nil, <<>>, null)]
         IN  Ret(nil, b, Append(st.log, LogEntry(object, st, err, nil, b)))
    ELSE Ret(err, st.objectBuf, Append(st.log, LogEntry(object, st, err, err, st.objectBuf)))

\* resolveObject, lines 497-550: the loops over FieldSets (i) and Fields (j),
\* from field j of FieldSet i on, and what follows them
\* line 538: the field's value (r) merged into the object, m being what
\* MergeBufPairs returned
objectFieldMerged(ctx, object, data, hasSet, set, i, j, st, r, m) ==
    objectFields(ctx, object, data, hasSet, set, i, j + 1,
        [st EXCEPT !.objectBuf = m.to, !.fieldBuf = m.from, !.first = FALSE,
                   !.log = @ \o r.log])
\* lines 531-538: after resolveNode returned r for field j of FieldSet i, the
\* object's buffer holding the field's name
objectFieldResolved(ctx, object, data, hasSet, set, i, j, st, named, r) ==
    IF r.err # nil
    THEN objectFieldFailed(object, r.err, [st EXCEPT !.objectBuf = named, !.log = @ \o r.log])
    ELSE objectFieldMerged(ctx, object, data, hasSet, set, i, j, st, r,
                           MergeBufPairs(r.buf, named, FALSE))
\* lines 508-530: FieldSet i from its field j on, fieldSetData being its data
objectFieldSet(ctx, object, data, hasSet, set, i, j, st, fieldSet, fieldSetData) ==
    IF j = 1 /\ TypeNameSkip(fieldSet, fieldSetData)
    THEN objectFields(ctx, object, data, hasSet, set, i + 1, 1,
                      [st EXCEPT !.typeNameSkip = TRUE])
    ELSE IF j > Len(fieldSet.Fields)
    THEN objectFields(ctx, object, data, hasSet, set, i + 1, 1, st)
    ELSE objectFieldResolved(ctx, object, data, hasSet, set, i, j, st,
             [st.objectBuf EXCEPT !.Data =
                 writeSafe(nil, writeSafe(nil, writeSafe(nil, writeSafe(nil,
                     writeSafe(nil, @, IF st.first THEN lBrace ELSE comma),
                     quote), fieldSet.Fields[j].Name), quote), colon)],
             resolveNode(ctx, fieldSet.Fields[j].Value, fieldSetData, st.fieldBuf))
objectFields(ctx, object, data, hasSet, set, i, j, st) ==
    IF i > Len(object.FieldSets) THEN objectEnd(object, st)
    ELSE objectFieldSet(ctx, object, data, hasSet, set, i, j, st, object.FieldSets[i],
                        FieldSetData(object.FieldSets[i], hasSet, set, data))

\* lines 484-496: after resolveFetch returned f (no Fetch: no error, no set),
\* data being the object's data at its Path
objectFetched(ctx, object, data0, data, objectBuf, f) ==
    IF f.err # nil
    THEN Ret(f.err, objectBuf,
             <<LogEntry(object, Called(data0, objectBuf), nil, f.err, objectBuf)>>)
    ELSE objectFields(ctx, object, data, object.Fetch.FetchKind # "nil", f.set, 1, 1,
             [objectBuf |-> mergeSetErrors(InOrder(ctx.mapOrder, DOMAIN f.set), 1,
                                           f.set, objectBuf),
              fieldBuf |-> getBufPair, first |-> TRUE, typeNameSkip |-> FALSE,
              log |-> <<>>, data |-> data0, pre |-> Len(objectBuf.Data)])
\* lines 479-483
objectFetch(ctx, object, data0, data, objectBuf) ==
    objectFetched(ctx, object, data0, data, objectBuf,
        IF object.Fetch.FetchKind # "nil" THEN resolveFetch(ctx, object.Fetch, data, <<>>)
        ELSE [err |-> nil, set |-> <<>>])
resolveObject(ctx, object, data0, objectBuf) ==
    objectFetch(ctx, object, data0,
        IF Len(object.Path) # 0 THEN Get(data0, object.Path).value ELSE data0, objectBuf)

\* resolveArraySynchronous, lines 341-351: item i returned err
arrayItemFailed(array, err, st) ==
    IF err = errNonNullableFieldValueIsNull /\ array.Nullable
    THEN LET b == resolveNull([st.arrayBuf EXCEPT !.Data = <<>>])
         IN  Ret(nil, b, Append(st.log, LogEntry(array, st, err, nil, b)))
    ELSE Ret(err, st.arrayBuf, Append(st.log, LogEntry(array, st, err, err, st.arrayBuf)))

\* resolveArraySynchronous, lines 339-358: the loop from item i on and the
\* closing bracket
\* the return of a node with its closing byte written (b)
nodeClosed(node, st, b) == Ret(nil, b, Append(st.log, LogEntry(node, st, st.childErr, nil, b)))
\* lines 352-355: item i (r) merged into the array, m being what MergeBufPairs
\* returned
arrayItemMerged(ctx, array, arrayItems, i, st, r, m) ==
    arrayItemsSynchronous(ctx, array, arrayItems, i + 1,
        [st EXCEPT !.arrayBuf = m.to, !.itemBuf = m.from, !.log = @ \o r.log,
                   !.hasPreviousItem = @ \/ m.dataWritten # 0])
\* lines 341-355: after resolveNode returned r for item i
arrayItemResolved(ctx, array, arrayItems, i, st, r) ==
    IF r.err # nil
    THEN IF r.err = errNonNullableFieldValueIsNull /\ array.Nullable
         THEN arrayItemFailed(array, r.err, [st EXCEPT !.log = @ \o r.log])
         ELSE IF r.err = errTypeNameSkipped
         THEN arrayItemsSynchronous(ctx, array, arrayItems, i + 1,
                  [st EXCEPT !.itemBuf = r.buf, !.log = @ \o r.log, !.childErr = r.err])
         ELSE arrayItemFailed(array, r.err, [st EXCEPT !.log = @ \o r.log])
    ELSE arrayItemMerged(ctx, array, arrayItems, i, st, r,
                         MergeBufPairs(r.buf, st.arrayBuf, st.hasPreviousItem))
arrayItemsSynchronous(ctx, array, arrayItems, i, st) ==
    IF i > Len(arrayItems)
    THEN nodeClosed(array, st, [st.arrayBuf EXCEPT !.Data = writeSafe(nil, @, rBrack)])
    ELSE arrayItemResolved(ctx, array, arrayItems, i, st,
                           resolveNode(ctx, array.Item[1], arrayItems[i], st.itemBuf))

resolveArraySynchronous(ctx, array, arrayItems, arrayBuf, called) ==
    arrayItemsSynchronous(ctx, array, arrayItems, 1,
        [arrayBuf |-> [arrayBuf EXCEPT !.Data = writeSafe(nil, @, lBrack)],
         itemBuf |-> getBufPair, hasPreviousItem |-> FALSE, log |-> <<>>,
         childErr |-> nil, data |-> called.data, pre |-> called.pre])

\* resolveArrayAsynchronous, lines 380-388: what the worker of an item sends
\* to errCh (nil: nothing)
workerSends(e) == IF e # nil /\ e # errTypeNameSkipped THEN e ELSE nil

\* errCh has one slot and the send does not block: the channel holds the
\* error of the first worker that sent one
errChSend(errCh, e) == IF errCh = nil THEN workerSends(e) ELSE errCh

\* resolveArrayAsynchronous, lines 410-415: the merge of the item buffers
\* from item i on, in the order of bufSlice
mergeItems(bufSlice, i, arrayBuf, hasPreviousItem) ==
    IF i > Len(bufSlice) THEN arrayBuf
    ELSE LET m == MergeBufPairs(bufSlice[i], arrayBuf, hasPreviousItem)
         IN  mergeItems(bufSlice, i + 1, m.to, hasPreviousItem \/ m.dataWritten # 0)

\* resolveArrayAsynchronous, lines 391-417: after wg.Wait, with the error
\* received from errCh (nil: none) and the item buffers; st.arrayBuf already
\* holds the opening bracket
arrayAsynchronousFinish(array, bufSlice, err, st) ==
    IF err # nil
    THEN arrayItemFailed(array, err, st)
    ELSE nodeClosed(array, st, [mergeItems(bufSlice, 1, st.arrayBuf, FALSE) EXCEPT
                                   !.Data = writeSafe(nil, @, rBrack)])

\* the errors sent to errCh by the workers in the order they finish
RECURSIVE errChAfter(_, _, _, _)
errChAfter(results, finished, k, errCh) ==
    IF k > Len(finished) THEN errCh
    ELSE errChAfter(results, finished, k + 1, errChSend(errCh, results[finished[k]].err))

RECURSIVE Flatten(_, _)
Flatten(seqs, i) == IF i > Len(seqs) THEN <<>> ELSE seqs[i] \o Flatten(seqs, i + 1)

\* resolveArrayAsynchronous with its workers finishing in the order ctx.sched
\* lines 391-417 once every worker has returned, results[i] being what
\* resolveNode returned to the worker of item i
arrayWorkersDone(ctx, array, arrayBuf, called, results) ==
    arrayAsynchronousFinish(array, [i \in 1..Len(results) |-> results[i].buf],
        errChAfter(results, InOrder(ctx.sched, 1..Len(results)), 1, nil),
        [arrayBuf |-> [arrayBuf EXCEPT !.Data = writeSafe(nil, @, lBrack)],
         log |-> Flatten([i \in 1..Len(results) |-> results[i].log], 1),
         data |-> called.data, pre |-> called.pre, childErr |-> nil])
resolveArrayAsynchronous(ctx, array, arrayItems, arrayBuf, called) ==
    arrayWorkersDone(ctx, array, arrayBuf, called,
        [i \in 1..Len(arrayItems) |->
           resolveNode(ctx, array.Item[1], arrayItems[i], getBufPair)])

\* Faulty variant for C39: an array without items resolves to [].
arrayEachDoneBrackets(ctx, array, data, arrayBuf, arrayItems) ==
    IF Len(arrayItems) = 0
    THEN Ret(nil, resolveEmptyArray(arrayBuf),
             <<LogEntry(array, Called(data, arrayBuf), nil, nil, resolveEmptyArray(arrayBuf))>>)
    ELSE IF array.ResolveAsynchronous
    THEN resolveArrayAsynchronous(ctx, array, arrayItems, arrayBuf, Called(data, arrayBuf))
    ELSE resolveArraySynchronous(ctx, array, arrayItems, arrayBuf, Called(data, arrayBuf))
\* lines 316-326, arrayItems being what ArrayEach collected
arrayEachDone(ctx, array, data, arrayBuf, arrayItems) ==
    IF Len(arrayItems) = 0
    THEN IF ~array.Nullable
         THEN Ret(errNonNullableFieldValueIsNull, arrayBuf,
                  <<LogEntry(array, Called(data, arrayBuf), nil,
                             errNonNullableFieldValueIsNull, arrayBuf)>>)
         ELSE Ret(nil, resolveNull(arrayBuf),
                  <<LogEntry(array, Called(data, arrayBuf), nil, nil,
                             resolveNull(arrayBuf))>>)
    ELSE IF array.ResolveAsynchronous
    THEN resolveArrayAsynchronous(ctx, array, arrayItems, arrayBuf, Called(data, arrayBuf))
    ELSE resolveArraySynchronous(ctx, array, arrayItems, arrayBuf, Called(data, arrayBuf))
resolveArray(ctx, array, data, arrayBuf) ==
    arrayEachDone(ctx, array, data, arrayBuf, ArrayEach(data, array.Path))

resolveNode(ctx, node, data, bufPair) ==
    CASE node.kind = "Object" -> resolveObject(ctx, node, data, bufPair)
      [] node.kind = "Array" -> resolveArray(ctx, node, data, bufPair)
      [] node.kind = "Null" -> Ret(nil, resolveNull(bufPair), <<>>)
      [] node.kind = "String" -> resolveString(node, data, bufPair)
      [] node.kind = "Boolean" -> resolveBoolean(node, data, bufPair)
      [] node.kind = "Integer" -> resolveInteger(node, data, bufPair)
      [] node.kind = "Float" -> resolveFloat(node, data, bufPair)
      [] node.kind = "EmptyObject" -> Ret(nil, resolveEmptyObject(bufPair), <<>>)
      [] node.kind = "EmptyArray" -> Ret(nil, resolveEmptyArray(bufPair), <<>>)
      [] OTHER -> Ret(nil, bufPair, <<>>)

\* ------------------------------------------------------- response assembler
\* ResolveGraphQLResponse: [err, writer], writer the bytes written
\* lines 268-279: the errors member, after the opening brace
writeErrors(buf, writer) ==
    IF HasErrors(buf)
    THEN writeSafe(nil, writeSafe(nil, writeSafe(nil, writeSafe(nil,
             writeSafe(nil, writer, quote), literalErrors), quote), colon), lBrack)
         \o buf.Errors \o <<rBrack>>
    ELSE writer
\* lines 281-290: the data member
writeData(buf, writer) ==
    IF HasData(buf)
    THEN writeSafe(nil, writeSafe(nil, writeSafe(nil, writeSafe(nil,
             (IF HasErrors(buf) THEN writeSafe(nil, writer, comma) ELSE writer),
             quote), literalData), quote), colon)
         \o buf.Data
    ELSE writer
\* Faulty variant for C40: the opening brace is written before the error is
\* looked at.
rootResolvedPartial(r, writer) ==
    IF r.err # nil
    THEN [err |-> r.err, writer |-> writeSafe(nil, writer, lBrace), log |-> r.log]
    ELSE [err |-> nil, log |-> r.log,
          writer |-> writeSafe(nil,
                         writeData(r.buf, writeErrors(r.buf, writeSafe(nil, writer, lBrace))),
                         rBrace)]
\* lines 258-291: after resolveNode returned r for the root
rootResolved(r, writer) ==
    IF r.err # nil
    THEN [err |-> r.err, writer |-> writer, log |-> r.log]
    ELSE [err |-> nil, log |-> r.log,
          writer |-> writeSafe(nil,
                         writeData(r.buf, writeErrors(r.buf, writeSafe(nil, writer, lBrace))),
                         rBrace)]
ResolveGraphQLResponse(ctx, response, data, writer) ==
    rootResolved(resolveNode(ctx, response, data, getBufPair), writer)

\* ----------------------------------------------------------- error objects
\* BufPair.writeErrors(err, data), lines 970-976: b after the call
bufPairWriteErrors(err, bp, data) ==
    IF err # nil THEN bp ELSE [bp EXCEPT !.Errors = @ \o <<data>>]
\* lines 991-998: the locations member
writeErrLocations(bp, locs) ==
    IF ~locs.isNil
    THEN [bp EXCEPT !.Errors = @ \o <<comma, quote, literalLocations, quote, colon>>
                                 \o locs.bytes]
    ELSE bp
\* lines 999-1006: the path member
writeErrPath(bp, pth) ==
    IF ~pth.isNil
    THEN [bp EXCEPT !.Errors = @ \o <<comma, quote, literalPath, quote, colon>> \o pth.bytes]
    ELSE bp
\* lines 979-990: the separator and the message member
writeErrMessage(bp, msg) ==
    [(IF HasErrors(bp) THEN bufPairWriteErrors(nil, bp, comma) ELSE bp)
        EXCEPT !.Errors = @ \o <<lBrace, quote, literalMessage, quote, colon, quote>>
                            \o msg.bytes \o <<quote>>]
\* BufPair.WriteErr(message, locations, path): b after the call (a
\* bytes.Buffer never fails, the error returned is nil)
WriteErr(bp, msg, locs, pth) ==
    bufPairWriteErrors(nil, writeErrPath(writeErrLocations(writeErrMessage(bp, msg), locs), pth),
                       rBrace)

\* Resolver.resolveObjectFieldSafe(err, writer, fieldName, fieldContent): the
\* writer after the call
resolveObjectFieldSafe(e, w, fieldName, fieldContent) ==
    IF e # nil THEN w ELSE w \o <<quote, fieldName, quote, colon>> \o fieldContent.bytes
\* lines 192-201: the member written when locations is not nil
writeErrSafePath(w, locs, pth) ==
    IF ~locs.isNil
    THEN resolveObjectFieldSafe(nil, w \o <<comma>>, literalPath, locs)
    ELSE w
\* lines 183-191: the locations member
writeErrSafeLocations(w, locs) ==
    IF ~locs.isNil
    THEN resolveObjectFieldSafe(nil, w \o <<comma>>, literalLocations, locs)
    ELSE w
\* Resolver.writeErrSafe(err, writer, message, locations, path): [err, writer]
writeErrSafe(e, w, msg, locs, pth) ==
    IF e # nil THEN [err |-> e, writer |-> w]
    ELSE [err |-> nil,
          writer |-> writeErrSafePath(
                         writeErrSafeLocations(
                             resolveObjectFieldSafe(nil, w \o <<lBrace>>, literalMessage, msg),
                             locs),
                         locs, pth) \o <<rBrace>>]

\* ---------------------------------------------------------------- document
\* ast.Document: the slices the selection-set transformations read and write.
\* A ref is the position of an element in its slice, counted from 1.
Document(selections, selectionSets, fields, inlineFragments, types) ==
    [Selections |-> selections, SelectionSets |-> selectionSets, Fields |-> fields,
     InlineFragments |-> inlineFragments, Types |-> types]
EmptyDocument == Document(<<>>, <<>>, <<>>, <<>>, <<>>)
SelectionKindField == "Field"
SelectionKindFragmentSpread == "FragmentSpread"
SelectionKindInlineFragment == "InlineFragment"
literalTYPENAME == "__typename"
SelectionSet(selectionRefs) == [SelectionRefs |-> selectionRefs]
Selection(kind, ref) == [Kind |-> kind, Ref |-> ref]
TypeCondition(type) == [Type |-> type]
InlineFragment(typeCondition, hasSelections, selectionSet) ==
    [TypeCondition |-> typeCondition, HasSelections |-> hasSelections,
     SelectionSet |-> selectionSet]
\* ast.Field, of which the transformations read the name only
AstField(name) == [Name |-> name]

\* The methods below give the document after the call; the ref a method
\* returns is that of the element it appended, the length of the slice.
AddSelectionSetToDocument(d, s) == [d EXCEPT !.SelectionSets = Append(@, s)]
AddSelectionSet(d) == AddSelectionSetToDocument(d, SelectionSet(<<>>))
AddSelectionToDocument(d, selection) == [d EXCEPT !.Selections = Append(@, selection)]
\* line 149, added being the document after AddSelectionToDocument
addSelectionRef(set, added) ==
    [added EXCEPT !.SelectionSets[set].SelectionRefs = Append(@, Len(added.Selections))]
AddSelection(d, set, selection) == addSelectionRef(set, AddSelectionToDocument(d, selection))
AppendSelectionSet(d, ref, appendRef) ==
    [d EXCEPT !.SelectionSets[ref].SelectionRefs = @ \o d.SelectionSets[appendRef].SelectionRefs]
RemoveFromSelectionSet(d, ref, index) ==
    [d EXCEPT !.SelectionSets[ref].SelectionRefs =
        SubSeq(@, 1, index - 1) \o SubSeq(@, index + 1, Len(@))]
\* Faulty variant for C37: the fragment is put first, renumbering the others.
AddInlineFragmentFirst(d, fragment) == [d EXCEPT !.InlineFragments = <<fragment>> \o @]
AddInlineFragment(d, fragment) == [d EXCEPT !.InlineFragments = Append(@, fragment)]
AddNamedType(d, name) == [d EXCEPT !.Types = Append(@, name)]
AddField(d, field) == [d EXCEPT !.Fields = Append(@, field)]
CopyField(d, ref) == AddField(d, d.Fields[ref])
FieldNameBytes(d, ref) == d.Fields[ref].Name
InlineFragmentTypeConditionName(d, ref) ==
    IF d.InlineFragments[ref].TypeCondition.Type = 0 THEN ""
    ELSE d.Types[d.InlineFragments[ref].TypeCondition.Type]

RECURSIVE CopySelectionSet(_, _)
RECURSIVE copySelections(_, _, _, _)
\* lines 44-47, c being the document after the inner copy
copiedField(c) == AddSelectionToDocument(c, Selection(SelectionKindField, Len(c.Fields)))
copiedInlineFragment(c) ==
    AddSelectionToDocument(c, Selection(SelectionKindInlineFragment, Len(c.InlineFragments)))
\* CopyInlineFragment, c being the document after CopySelectionSet
copiedSelections(c, fragment) ==
    AddInlineFragment(c, [fragment EXCEPT !.SelectionSet = Len(c.SelectionSets)])
CopyInlineFragment(d, ref) ==
    IF d.InlineFragments[ref].HasSelections
    THEN copiedSelections(CopySelectionSet(d, d.InlineFragments[ref].SelectionSet),
                          d.InlineFragments[ref])
    ELSE AddInlineFragment(d, [d.InlineFragments[ref] EXCEPT !.SelectionSet = 1])
\* the documents of the model hold no fragment spreads
CopySelection(d, ref) ==
    CASE d.Selections[ref].Kind = SelectionKindField ->
           copiedField(CopyField(d, d.Selections[ref].Ref))
      [] d.Selections[ref].Kind = SelectionKindInlineFragment ->
           copiedInlineFragment(CopyInlineFragment(d, d.Selections[ref].Ref))
      [] OTHER -> AddSelectionToDocument(d, Selection(d.Selections[ref].Kind, -1))
\* line 53, c being the document after CopySelection
copiedSelection(c, srcRefs, i, refs) ==
    copySelections(c, srcRefs, i + 1, Append(refs, Len(c.Selections)))
copySelections(d, srcRefs, i, refs) ==
    IF i > Len(srcRefs) THEN AddSelectionSetToDocument(d, SelectionSet(refs))
    ELSE copiedSelection(CopySelection(d, srcRefs[i]), srcRefs, i, refs)
CopySelectionSet(d, ref) == copySelections(d, d.SelectionSets[ref].SelectionRefs, 1, <<>>)

\* ExpandInterfaceSelectionSet
\* lines 199-204: the selection is a field other than __typename
isFieldToMove(d, selection) ==
    /\ d.Selections[selection].Kind = SelectionKindField
    /\ FieldNameBytes(d, d.Selections[selection].Ref) # literalTYPENAME
\* line 206
fieldMoved(d, to, selection) ==
    [d EXCEPT !.SelectionSets[to].SelectionRefs = Append(@, selection)]
\* lines 197-207: the loop from index i down to the first selection
RECURSIVE moveFields(_, _, _, _)
moveFields(d, set, to, i) ==
    IF i < 1 THEN d
    ELSE IF isFieldToMove(d, d.SelectionSets[set].SelectionRefs[i])
         THEN moveFields(fieldMoved(RemoveFromSelectionSet(d, set, i), to,
                                    d.SelectionSets[set].SelectionRefs[i]),
                         set, to, i - 1)
         ELSE moveFields(d, set, to, i - 1)
\* lines 215-218: refs[i], refs[len(refs)-1] = refs[len(refs)-1], refs[i] for
\* the first len(refs)/2 indices
RECURSIVE reverseRefs(_, _)
reverseRefs(refs, i) ==
    IF i > Len(refs) \div 2 THEN refs
    ELSE reverseRefs([refs EXCEPT ![i] = refs[Len(refs)], ![Len(refs)] = refs[i]], i + 1)
refsReversed(d, set) ==
    [d EXCEPT !.SelectionSets[set].SelectionRefs = reverseRefs(@, 1)]
\* lines 229-232, f being the document after AddInlineFragment
fragmentAdded(f, to) ==
    AddSelection(f, to, Selection(SelectionKindInlineFragment, Len(f.InlineFragments)))
\* lines 222-228, c being the document after CopySelectionSet
selectionSetCopied(c, namedType, to) ==
    fragmentAdded(AddInlineFragment(c, InlineFragment(TypeCondition(namedType), TRUE,
                                                      Len(c.SelectionSets))), to)
\* Faulty variant for C19: every fragment is given the staging selection
\* set itself instead of a copy of it.
namedTypeAddedShared(t, from, to) ==
    fragmentAdded(AddInlineFragment(t, InlineFragment(TypeCondition(Len(t.Types)), TRUE, from)),
                  to)
\* lines 221-232, t being the document after AddNamedType
namedTypeAdded(t, from, to) == selectionSetCopied(CopySelectionSet(t, from), Len(t.Types), to)
\* lines 220-233: the loop from type name k on
RECURSIVE addFragments(_, _, _, _, _)
addFragments(d, concreteTypeNames, k, from, to) ==
    IF k > Len(concreteTypeNames) THEN d
    ELSE addFragments(namedTypeAdded(AddNamedType(d, concreteTypeNames[k]), from, to),
                      concreteTypeNames, k + 1, from, to)
\* Faulty variant for C20: no return when no field was moved.
fieldsMovedAlways(m, set, concreteTypeNames, selectionSetToAdd, inlineFragmentSelectionSet) ==
    AppendSelectionSet(
        addFragments(refsReversed(m, inlineFragmentSelectionSet), concreteTypeNames, 1,
                     inlineFragmentSelectionSet, selectionSetToAdd),
        set, selectionSetToAdd)
\* lines 209-235, m being the document after the fields were moved
fieldsMoved(m, set, concreteTypeNames, selectionSetToAdd, inlineFragmentSelectionSet) ==
    IF Len(m.SelectionSets[inlineFragmentSelectionSet].SelectionRefs) = 0 THEN m
    ELSE AppendSelectionSet(
             addFragments(refsReversed(m, inlineFragmentSelectionSet), concreteTypeNames, 1,
                          inlineFragmentSelectionSet, selectionSetToAdd),
             set, selectionSetToAdd)
\* lines 197-235, a being the document after the two AddSelectionSet calls
selectionSetsAdded(a, set, concreteTypeNames) ==
    fieldsMoved(moveFields(a, set, Len(a.SelectionSets),
                           Len(a.SelectionSets[set].SelectionRefs)),
                set, concreteTypeNames, Len(a.SelectionSets) - 1, Len(a.SelectionSets))
ExpandInterfaceSelectionSet(d, set, concreteTypeNames) ==
    selectionSetsAdded(AddSelectionSet(AddSelectionSet(d)), set, concreteTypeNames)

\* SelectionIndex: the first index of the selection, the first index of the
\* set when it holds no such selection (index 0 of the code)
selectionIndexes(d, selectionKind, selectionRef, selectionSet) ==
    {i \in 1..Len(d.SelectionSets[selectionSet].SelectionRefs) :
       d.Selections[d.SelectionSets[selectionSet].SelectionRefs[i]]
         = Selection(selectionKind, selectionRef)}
SelectionIndex(d, selectionKind, selectionRef, selectionSet) ==
    IF selectionIndexes(d, selectionKind, selectionRef, selectionSet) = {} THEN 1
    ELSE CHOOSE i \in selectionIndexes(d, selectionKind, selectionRef, selectionSet) :
           \A j \in selectionIndexes(d, selectionKind, selectionRef, selectionSet) : i <= j
\* Faulty variant for C22: the contents are appended after the selections
\* that followed the replaced one.
ReplaceSelectionAtEnd(d, ref, replace, with) ==
    [d EXCEPT !.SelectionSets[ref].SelectionRefs =
        SubSeq(@, 1, replace - 1) \o SubSeq(@, replace + 1, Len(@))
          \o d.SelectionSets[with].SelectionRefs]
ReplaceSelectionOnSelectionSet(d, ref, replace, with) ==
    [d EXCEPT !.SelectionSets[ref].SelectionRefs =
        SubSeq(@, 1, replace - 1) \o d.SelectionSets[with].SelectionRefs
          \o SubSeq(@, replace + 1, Len(@))]

\* ExpandInterfaceInlineFragment (part_000)
\* Faulty variant for C21: the copy keeps the type condition of the original.
typeConditionKept(c, namedType) == c
\* lines 80-82, c being the document after CopyInlineFragment
typeConditionRewritten(c, namedType) ==
    [c EXCEPT !.InlineFragments[Len(c.InlineFragments)].TypeCondition =
        TypeCondition(namedType)]
\* lines 78-87, t being the document after AddNamedType
fragmentTypeAdded(t, inlineFragment, replacementSelectionSet) ==
    fragmentAdded(typeConditionRewritten(CopyInlineFragment(t, inlineFragment), Len(t.Types)),
                  replacementSelectionSet)
\* lines 76-88: the loop from type name k on
RECURSIVE copyFragments(_, _, _, _, _)
copyFragments(d, concreteTypeNames, k, inlineFragment, replacementSelectionSet) ==
    IF k > Len(concreteTypeNames) THEN d
    ELSE copyFragments(fragmentTypeAdded(AddNamedType(d, concreteTypeNames[k]),
                                         inlineFragment, replacementSelectionSet),
                       concreteTypeNames, k + 1, inlineFragment, replacementSelectionSet)
\* lines 90-92, c being the document after the loop
fragmentsCopied(c, inlineFragment, parentSelectionSet, replacementSelectionSet) ==
    ReplaceSelectionOnSelectionSet(
        c, parentSelectionSet,
        SelectionIndex(c, SelectionKindInlineFragment, inlineFragment, parentSelectionSet),
        replacementSelectionSet)
\* lines 76-92, a being the document after AddSelectionSet
replacementAdded(a, inlineFragment, parentSelectionSet, concreteTypeNames) ==
    fragmentsCopied(copyFragments(a, concreteTypeNames, 1, inlineFragment,
                                  Len(a.SelectionSets)),
                    inlineFragment, parentSelectionSet, Len(a.SelectionSets))
ExpandInterfaceInlineFragment(d, inlineFragment, parentSelectionSet, concreteTypeNames) ==
    replacementAdded(AddSelectionSet(d), inlineFragment, parentSelectionSet,
                     concreteTypeNames)
PromoteUnionInlineFragments(d, inlineFragment, parentSelectionSet) ==
    ReplaceSelectionOnSelectionSet(
        d, parentSelectionSet,
        SelectionIndex(d, SelectionKindInlineFragment, inlineFragment, parentSelectionSet),
        d.InlineFragments[inlineFragment].SelectionSet)

\* ------------------------------------- deletion of invalid inline fragments
\* The schema definition of the normalization tests, as far as the visitor
\* reads it: the object types Dog and Cat, both implementing the interface
\* Pet. Any other name is not defined.
ObjectTypeDefinitions == {"Dog", "Cat"}
InterfaceTypeDefinitions == {"Pet"}
\* definition.Index.FirstNonExtensionNodeByNameBytes: exists
FirstNonExtensionNodeByNameBytes(typeName) ==
    typeName \in ObjectTypeDefinitions \cup InterfaceTypeDefinitions
\* definition.NodeFragmentIsAllowedOnNode: the two types are the same or one
\* is the interface the other implements
NodeFragmentIsAllowedOnNode(fragmentNode, onNode) ==
    \/ fragmentNode = onNode
    \/ fragmentNode \in InterfaceTypeDefinitions /\ onNode \in ObjectTypeDefinitions
    \/ fragmentNode \in ObjectTypeDefinitions /\ onNode \in InterfaceTypeDefinitions
\* Faulty variant for C23: a fragment on a type that is not defined is
\* removed as well.
isInvalidFragmentOrUndefined(d, selection, enclosingTypeDefinition) ==
    /\ d.Selections[selection].Kind = SelectionKindInlineFragment
    /\ ~NodeFragmentIsAllowedOnNode(
          InlineFragmentTypeConditionName(d, d.Selections[selection].Ref),
          enclosingTypeDefinition)
\* lines 34-55: the selection is an inline fragment on a defined type that
\* is not allowed on the enclosing type
isInvalidFragment(d, selection, enclosingTypeDefinition) ==
    /\ d.Selections[selection].Kind = SelectionKindInlineFragment
    /\ FirstNonExtensionNodeByNameBytes(
          InlineFragmentTypeConditionName(d, d.Selections[selection].Ref))
    /\ ~NodeFragmentIsAllowedOnNode(
          InlineFragmentTypeConditionName(d, d.Selections[selection].Ref),
          enclosingTypeDefinition)
\* lines 33-56: the loop from index down to the first selection
RECURSIVE deleteInvalid(_, _, _, _)
deleteInvalid(d, ref, index, enclosingTypeDefinition) ==
    IF index < 1 THEN d
    ELSE IF isInvalidFragment(d, d.SelectionSets[ref].SelectionRefs[index],
                              enclosingTypeDefinition)
         THEN deleteInvalid(RemoveFromSelectionSet(d, ref, index), ref, index - 1,
                            enclosingTypeDefinition)
         ELSE deleteInvalid(d, ref, index - 1, enclosingTypeDefinition)
\* deleteInvalidInlineFragmentsVisitor.EnterSelectionSet on the operation d
EnterSelectionSet(d, ref, enclosingTypeDefinition) ==
    deleteInvalid(d, ref, Len(d.SelectionSets[ref].SelectionRefs), enclosingTypeDefinition)

\* -------------------------------------------------------------- Transformer
Precedence(depth, order) == [Depth |-> depth, Order |-> order]
expandInterfaceSelectionSet(selectionSet, concreteTypeNames) ==
    [selectionSet |-> selectionSet, concreteTypeNames |-> concreteTypeNames]
\* action; registered, the position at which it was registered, is a history
\* field the code does not keep
action(precedence, transformation, registered) ==
    [precedence |-> precedence, transformation |-> transformation, registered |-> registered]
\* expandInterfaceSelectionSet.apply
apply(transformation, transformable) ==
    ExpandInterfaceSelectionSet(transformable, transformation.selectionSet,
                                transformation.concreteTypeNames)
expandInterfaceInlineFragment(inlineFragment, parentSelectionSet, concreteTypeNames) ==
    [inlineFragment |-> inlineFragment, parentSelectionSet |-> parentSelectionSet,
     concreteTypeNames |-> concreteTypeNames]
\* expandInterfaceInlineFragment.apply
applyExpandInterfaceInlineFragment(transformation, transformable) ==
    ExpandInterfaceInlineFragment(transformable, transformation.inlineFragment,
                                  transformation.parentSelectionSet,
                                  transformation.concreteTypeNames)
promoteUnionInlineFragments(inlineFragment, parentSelectionSet) ==
    [inlineFragment |-> inlineFragment, parentSelectionSet |-> parentSelectionSet]
\* promoteUnionInlineFragments.apply
applyPromoteUnionInlineFragments(transformation, transformable) ==
    PromoteUnionInlineFragments(transformable, transformation.inlineFragment,
                                transformation.parentSelectionSet)
\* Faulty variant for C16: shallower actions sort first.
lessShallowFirst(x, y) ==
    IF x.precedence.Depth # y.precedence.Depth
    THEN x.precedence.Depth < y.precedence.Depth
    ELSE x.precedence.Order < y.precedence.Order
\* the less function handed to sort.Slice
less(x, y) ==
    IF x.precedence.Depth # y.precedence.Depth
    THEN x.precedence.Depth > y.precedence.Depth
    ELSE x.precedence.Order < y.precedence.Order
\* sort.Slice: the slice in one of the orders that less allows; the sort is
\* not stable, elements that less does not order may come out in any order
sortSlice(acts) ==
    {[i \in 1..Len(acts) |-> acts[p[i]]] :
       p \in {q \in Permutations(1..Len(acts)) :
                \A i, j \in 1..Len(acts) : i < j => ~less(acts[q[j]], acts[q[i]])}}
\* lines 1181-1183: the document after the first n actions were applied
RECURSIVE applyAll(_, _, _)
applyAll(acts, n, transformable) ==
    IF n = 0 THEN transformable
    ELSE apply(acts[n].transformation, applyAll(acts, n - 1, transformable))
\* one application as the history keeps it: the transformation, the
\* document it met and the document it left
Applied(transformation, before, after) ==
    [transformation |-> transformation, before |-> before, after |-> after]

\* ------------------------------------------------------------------ inputs
\* The plans and upstream data a request is drawn from.
OptBool == BOOLEAN
Leaves == {String(<<"name">>, n) : n \in OptBool}
IdFieldSet(tn) == FieldSet(tn, 0, FALSE, <<Field("id", Integer(<<"id">>, TRUE))>>)
\* objects of one FieldSet, with or without a type condition
PlainObjects(path) ==
    {Object(n, path, <<FieldSet(tn, 0, FALSE, <<Field("name", l)>>)>>, FetchNone) :
       n \in OptBool, tn \in {<<>>, <<"A">>}, l \in Leaves}
\* objects of two FieldSets
UnionObjects(path) ==
    {Object(n, path, <<FieldSet(<<"A">>, 0, FALSE, <<Field("name", l)>>), IdFieldSet(tn)>>,
            FetchNone) : n \in OptBool, tn \in {<<>>, <<"B">>}, l \in Leaves}
\* objects whose field is an object
MidObjects(path) ==
    {Object(n, path, <<FieldSet(<<>>, 0, FALSE, <<Field("inner", o)>>)>>, FetchNone) :
       n \in OptBool, o \in PlainObjects(<<"inner">>)}
ItemNodes == PlainObjects(<<>>) \cup MidObjects(<<>>) \cup {Integer(<<>>, n) : n \in OptBool}
Arrays(path) ==
    {Array(n, path, a, item) : n \in OptBool, a \in BOOLEAN, item \in ItemNodes}
RootFields ==
    {Field("name", l) : l \in Leaves}
    \cup {Field("inner", o) : o \in PlainObjects(<<"inner">>) \cup UnionObjects(<<"inner">>)
                                  \cup MidObjects(<<"inner">>)}
    \cup {Field("items", a) : a \in Arrays(<<"items">>)}
TreePlans ==
    {Object(n, <<>>, fss, FetchNone) :
       n \in OptBool,
       fss \in {<<FieldSet(<<>>, 0, FALSE, <<f>>)>> : f \in RootFields}
               \cup {<<FieldSet(<<"A">>, 0, FALSE, <<f>>), IdFieldSet(<<"B">>)>> :
                        f \in RootFields}}

\* mock data sources: what Load writes and returns
\* ctx.Context.Err() after the caller cancelled the context, as a Load that
\* observes the cancellation returns it
contextCanceled == "context canceled"
ErrorObject(m) == "{\"message\":\"" \o m \o "\"}"
UpstreamObject == JObj(<<KV("__typename", JStr("A")), KV("name", JStr("x")), KV("id", JNum("1"))>>)
DataSources(id) ==
    {DataSource(id, d, e, x) :
       d \in {NoData, UpstreamObject, JObj(<<KV("name", JNull)>>)},
       e \in {<<>>, <<ErrorObject(id)>>},
       x \in {nil, "load failed", contextCanceled}}
BatchDataSources(id) ==
    {DataSource(id, UpstreamObject, <<>>, nil), DataSource(id, NoData, <<ErrorObject(id)>>, nil),
     DataSource(id, UpstreamObject, <<ErrorObject(id)>>, nil),
     DataSource(id, NoData, <<>>, "load failed"),
     DataSource(id, NoData, <<>>, contextCanceled)}
Query == <<StaticSegment("query")>>
FetchPlans ==
    {Object(n, <<>>, <<FieldSet(tn, 0, TRUE, <<Field("name", l)>>)>>,
            FetchSingle(SingleFetch(0, ds, FALSE, Query))) :
       n \in OptBool, tn \in {<<>>, <<"A">>}, l \in Leaves, ds \in DataSources("s0")}
    \cup
    {Object(n, <<>>, <<FieldSet(<<>>, 0, TRUE, <<Field("name", l)>>), IdFieldSet(<<"A">>)>>,
            FetchSingle(SingleFetch(0, ds, FALSE, Query))) :
       n \in OptBool, l \in Leaves, ds \in BatchDataSources("s0")}
    \cup
    {Object(n, <<>>, <<FieldSet(<<>>, 0, TRUE, <<Field("name", l)>>),
                       FieldSet(<<"A">>, 1, TRUE, <<Field("id", Integer(<<"id">>, TRUE))>>)>>,
            FetchParallel(<<SingleFetch(0, ds0, FALSE, Query),
                            SingleFetch(1, ds1, FALSE, Query)>>)) :
       n \in OptBool, l \in Leaves, ds0 \in BatchDataSources("s0"),
       ds1 \in BatchDataSources("s1")}
Plans == TreePlans \cup FetchPlans
\* the orders in which range can walk the buffers of the resultSet
MapOrders(node) ==
    IF node.Fetch.FetchKind = "Parallel" THEN {<<0, 1>>, <<1, 0>>} ELSE {<<0, 1>>}

SeqsUpTo(S, n) == UNION {[1..k -> S] : k \in 0..n}

\* The upstream values a node can meet at its path.
RECURSIVE ValueData(_)
RECURSIVE MembersFor(_, _)
AllFields(object) == Flatten([i \in 1..Len(object.FieldSets) |-> object.FieldSets[i].Fields], 1)
IsTyped(object) == \E i \in 1..Len(object.FieldSets) : object.FieldSets[i].OnTypeName # <<>>
MembersFor(fields, i) ==
    IF i > Len(fields) THEN {<<>>}
    ELSE {<<KV(fields[i].Value.Path[1], v)>> \o rest :
            v \in ValueData(fields[i].Value), rest \in MembersFor(fields, i + 1)}
ValueData(node) ==
    CASE node.kind = "String" -> {JStr("x"), JNull}
      [] node.kind = "Integer" -> {JNum("1"), JNull}
      [] node.kind = "Object" ->
           {JObj(tn \o m) :
              tn \in IF IsTyped(node)
                     THEN {<<KV("__typename", JStr(t))>> : t \in {"A", "B"}} ELSE {<<>>},
              m \in MembersFor(AllFields(node), 1)}
      [] node.kind = "Array" ->
           {JArr(e) : e \in SeqsUpTo(ValueData(node.Item[1]), MaxItems)}
      [] OTHER -> {JNull}

\* the orders in which MaxItems workers can finish
FinishOrders(n) == {p \in [1..n -> 1..n] : \A i, j \in 1..n : p[i] = p[j] => i = j}
RECURSIVE HasAsync(_)
HasAsync(node) ==
    \/ node.kind = "Array" /\ (node.ResolveAsynchronous \/ HasAsync(node.Item[1]))
    \/ node.kind = "Object" /\ \E i \in 1..Len(AllFields(node)) : HasAsync(AllFields(node)[i].Value)
Identity(n) == [i \in 1..n |-> i]
Scheds(node) == IF HasAsync(node) THEN FinishOrders(MaxItems) ELSE {Identity(MaxItems)}

\* ------------------------------------------------------------------- state
VARIABLES
    response,   \* the plan: GraphQLResponse.Data
    upstream,   \* data, the upstream JSON handed to ResolveGraphQLResponse
    ctx,        \* the Context of the request
    pc,         \* "start" before the call, "done" after it returned
    writer,     \* the bytes written to the caller's writer
    err,        \* the error ResolveGraphQLResponse returned
    log,        \* the Object and Array calls of the request
    \* resolveArrayAsynchronous and its item workers
    arrayItems, \* the items ArrayEach collected
    arrayBuf,   \* the BufPair the array is resolved into
    bufSlice,   \* the item BufPairs, one per spawned worker
    errCh,      \* the error channel of capacity 1: nil when empty
    wg,         \* the WaitGroup's counter
    worker,     \* per spawned worker: its position and the error of its item
    \* resolveSingleFetch and the singleflight loader
    EnableSingleFlightLoader,   \* Resolver.EnableSingleFlightLoader
    inflightFetchMu,    \* the mutex: 0 when unlocked, else the caller that holds it
    inflightFetches,    \* the map: per fetchID the inflightFetch stored, 0 for none
    inflightFetchPool,  \* the inflightFetch records in the pool
    inflight,           \* the inflightFetch records: waitLoad, waitFree, err, bufPair
    freeing,            \* the records a goroutine of lines 665-668 waits to free
    caller,             \* per caller of resolveSingleFetch: arguments, locals, position
    loads,              \* the calls of DataSource.Load made so far
    concurrent,         \* no call began after another call had returned
    \* resolveFetch on a ParallelFetch and its workers
    fetch,              \* the ParallelFetch
    set,                \* resultSet.buffers: per BufferId its BufPair
    preparedInputs,     \* the rendered inputs, one per prepared fetch
    \* the error-object writers
    b,                  \* the BufPair WriteErr or a scalar resolver is called on
    message,            \* the arguments of WriteErr and writeErrSafe
    locations,
    path,
    \* the Transformer and the document it transforms
    document,           \* the ast.Document
    actions,            \* Transformer.actions
    applied,            \* the actions applied so far, in order of application
    \* the pool of BufPairs and the calls that hold pairs of it
    bufPairs,           \* every BufPair bufPairPool.New has made, by identity
    bufPairPool,        \* Resolver.bufPairPool: the identities it holds
    stack,              \* the calls of the request in progress, innermost last
    requests,           \* the calls of ResolveGraphQLResponse that returned
    written             \* the pairs written to since they were last acquired

treeVars == <<response, upstream, ctx, pc, writer, err, log>>
arrayVars == <<arrayItems, arrayBuf, bufSlice, errCh, wg, worker>>
flightVars == <<EnableSingleFlightLoader, inflightFetchMu, inflightFetches,
                inflightFetchPool, inflight, freeing, caller, loads, concurrent>>
fetchVars == <<fetch, set, preparedInputs>>
errorVars == <<b, message, locations, path>>
transformVars == <<document, actions, applied>>
poolVars == <<bufPairs, bufPairPool, stack, requests, written>>
vars == <<treeVars, arrayVars, flightVars, fetchVars, errorVars, transformVars, poolVars>>

\* no request holds a BufPair and bufPairPool is as New made it
PoolIdle ==
    /\ bufPairs = <<>>
    /\ bufPairPool = {}
    /\ stack = <<>>
    /\ requests = 0
    /\ written = {}

\* no array call in progress
ArrayIdle ==
    /\ arrayItems = <<>>
    /\ arrayBuf = getBufPair
    /\ bufSlice = <<>>
    /\ errCh = nil
    /\ wg = 0
    /\ worker = <<>>

\* no call of resolveSingleFetch: a Resolver as New returns it
FlightIdle ==
    /\ EnableSingleFlightLoader = FALSE
    /\ inflightFetchMu = 0
    /\ inflightFetches = <<>>
    /\ inflightFetchPool = {}
    /\ inflight = <<>>
    /\ freeing = {}
    /\ caller = <<>>
    /\ loads = <<>>
    /\ concurrent = TRUE

\* no resolveFetch in progress
FetchIdle ==
    /\ fetch = FetchNone
    /\ set = <<>>
    /\ preparedInputs = <<>>

\* no error object being written
ErrorIdle ==
    /\ b = getBufPair
    /\ message = NilBytes
    /\ locations = NilBytes
    /\ path = NilBytes

\* a Transformer after Reset and an empty document
TransformIdle ==
    /\ document = EmptyDocument
    /\ actions = <<>>
    /\ applied = <<>>

Init ==
    /\ response \in Plans
    /\ upstream \in ValueData(response)
    /\ ctx \in {Context(NoData, s, m) : s \in Scheds(response), m \in MapOrders(response)}
    /\ pc = "start"
    /\ writer = <<>>
    /\ err = nil
    /\ log = <<>>
    /\ ArrayIdle
    /\ PoolIdle
    /\ FlightIdle
    /\ FetchIdle
    /\ ErrorIdle
    /\ TransformIdle

\* the call has returned r
Returned(r) ==
    /\ writer' = r.writer
    /\ err' = r.err
    /\ log' = r.log

Resolve ==
    /\ pc = "start"
    /\ Returned(ResolveGraphQLResponse(ctx, response, upstream, writer))
    /\ pc' = "done"
    /\ UNCHANGED <<response, upstream, ctx>>
    /\ UNCHANGED arrayVars
    /\ UNCHANGED <<flightVars, fetchVars, errorVars, transformVars>>
    /\ UNCHANGED poolVars

Next == Resolve

Spec == Init /\ [][Next]_vars

\* ------------------------------------------- the array and its item workers
\* resolveArray on an Array that resolves asynchronously, one step of the
\* primary thread or of an item worker at a time.  response is the Array,
\* upstream the data it is called with, pc the primary thread's position.
AsyncArrays == {a \in Arrays(<<>>) : a.ResolveAsynchronous}

InitArray ==
    /\ response \in AsyncArrays
    /\ upstream \in ValueData(response)
    /\ ctx = Context(NoData, Identity(MaxItems), <<0, 1>>)
    /\ pc = "start"
    /\ writer = <<>>
    /\ err = nil
    /\ log = <<>>
    /\ ArrayIdle
    /\ PoolIdle
    /\ FlightIdle
    /\ FetchIdle
    /\ ErrorIdle
    /\ TransformIdle

\* resolveArray, lines 312-324, and resolveArrayAsynchronous, lines 363-374
\* the array call has returned r
ArrayReturned(r) ==
    /\ arrayBuf' = r.buf
    /\ err' = r.err
    /\ log' = r.log
    /\ pc' = "done"

\* lines 316-324 and 363-374, items being what ArrayEach collected
ArrayEachDone(items) ==
    IF Len(items) = 0
    THEN /\ ArrayReturned(arrayEachDone(ctx, response, upstream, arrayBuf, items))
         /\ UNCHANGED <<arrayItems, wg>>
    ELSE /\ arrayItems' = items
         /\ arrayBuf' = [arrayBuf EXCEPT !.Data = writeSafe(nil, @, lBrack)]
         /\ wg' = wg + Len(items)
         /\ pc' = "spawn"
         /\ UNCHANGED <<err, log>>

ArrayCall ==
    /\ pc = "start"
    /\ ArrayEachDone(ArrayEach(upstream, response.Path))
    /\ UNCHANGED <<response, upstream, ctx, writer, bufSlice, errCh, worker>>
    /\ UNCHANGED <<flightVars, fetchVars, errorVars, transformVars>>
    /\ UNCHANGED poolVars

\* lines 376-389: one round of the loop, the goroutine started
Spawn ==
    /\ pc = "spawn"
    /\ bufSlice' = Append(bufSlice, getBufPair)
    /\ worker' = Append(worker, [pc |-> "resolve", e |-> nil])
    /\ pc' = IF Len(bufSlice) + 1 = Len(arrayItems) THEN "wait" ELSE "spawn"
    /\ UNCHANGED <<response, upstream, ctx, writer, err, log, arrayItems, arrayBuf, errCh, wg>>
    /\ UNCHANGED <<flightVars, fetchVars, errorVars, transformVars>>
    /\ UNCHANGED poolVars

\* line 381: worker i resolves its item into its own BufPair
WorkerResolved(i, r) ==
    /\ bufSlice' = [bufSlice EXCEPT ![i] = r.buf]
    /\ worker' = [worker EXCEPT ![i] = [pc |-> "send", e |-> r.err]]
    /\ log' = log \o r.log

WorkerResolve(i) ==
    /\ worker[i].pc = "resolve"
    /\ WorkerResolved(i, resolveNode(ctx, response.Item[1], arrayItems[i], bufSlice[i]))
    /\ UNCHANGED <<response, upstream, ctx, pc, writer, err, arrayItems, arrayBuf, errCh, wg>>
    /\ UNCHANGED <<flightVars, fetchVars, errorVars, transformVars>>
    /\ UNCHANGED poolVars

\* lines 381-386: the non-blocking send of the item's error
WorkerSend(i) ==
    /\ worker[i].pc = "send"
    /\ errCh' = errChSend(errCh, worker[i].e)
    /\ worker' = [worker EXCEPT ![i].pc = "done"]
    /\ UNCHANGED <<treeVars, arrayItems, arrayBuf, bufSlice, wg>>
    /\ UNCHANGED <<flightVars, fetchVars, errorVars, transformVars>>
    /\ UNCHANGED poolVars

\* line 387: wg.Done()
WorkerDone(i) ==
    /\ worker[i].pc = "done"
    /\ wg' = wg - 1
    /\ worker' = [worker EXCEPT ![i].pc = "exited"]
    /\ UNCHANGED <<treeVars, arrayItems, arrayBuf, bufSlice, errCh>>
    /\ UNCHANGED <<flightVars, fetchVars, errorVars, transformVars>>
    /\ UNCHANGED poolVars

\* Faulty variant for C15: wg.Wait() returns at once.
waitGroupIgnored(counter) == TRUE
\* Faulty variant for C34: wg.Wait() does not wait for the workers.
waitGroupPassed(counter) == counter >= 0
\* wg.Wait() returns when the counter is zero
waitGroupDone(counter) == counter = 0

\* lines 391-417: wg.Wait(), the receive from errCh, the merge in index order
\* and the deferred release of the item BufPairs
ArrayWait ==
    /\ pc = "wait"
    /\ waitGroupDone(wg)
    /\ ArrayReturned(arrayAsynchronousFinish(response, bufSlice, errCh,
           [arrayBuf |-> arrayBuf, log |-> log, data |-> upstream, pre |-> 0,
            childErr |-> nil]))
    /\ errCh' = nil
    /\ bufSlice' = <<>>
    /\ UNCHANGED <<response, upstream, ctx, writer, arrayItems, wg, worker>>
    /\ UNCHANGED <<flightVars, fetchVars, errorVars, transformVars>>
    /\ UNCHANGED poolVars

NextArray ==
    \/ ArrayCall
    \/ Spawn
    \/ \E i \in 1..Len(worker) : WorkerResolve(i)
    \/ \E i \in 1..Len(worker) : WorkerSend(i)
    \/ \E i \in 1..Len(worker) : WorkerDone(i)
    \/ ArrayWait

SpecArray == InitArray /\ [][NextArray]_vars

\* ------------------------------------------ resolveSingleFetch, singleflight
\* NCallers goroutines call resolveSingleFetch once each, one step at a time.
Callers == 1..NCallers
\* the inflightFetch records the pool can hand out: a leader takes one record
Records == 1..NCallers
UniqueIdentifiers == {"a"}
PreparedInputs == {"b", "c"}
\* lines 613-616: the hash of the identifier followed by the input
fetchID(uniqueIdentifier, preparedInput) == uniqueIdentifier \o preparedInput
FetchIDs == {fetchID(u, i) : u \in UniqueIdentifiers, i \in PreparedInputs}

\* what a call of DataSource.Load can write and return
LoadResult(data, errors, e) == [data |-> data, errors |-> errors, err |-> e]
NoResult == LoadResult(<<>>, <<>>, "none")
LoadResults ==
    {LoadResult(<<"{\"x\":1}">>, <<>>, nil),
     LoadResult(<<>>, <<ErrorObject("e")>>, nil),
     LoadResult(<<"{\"x\":2}">>, <<>>, "load failed"),
     LoadResult(<<>>, <<>>, "load failed")}
\* Faulty variant for C32: Load leaves the BufPair as it was.
loadIntoNothing(bufPair, res) == bufPair
\* DataSource.Load writing res into bufPair
loadInto(bufPair, res) == BufPair(bufPair.Data \o res.data, bufPair.Errors \o res.errors)

\* inflightFetchPool.New, lines 152-159; leader is the caller the record was
\* handed to last
newInflightFetch ==
    [waitLoad |-> 0, waitFree |-> 0, err |-> nil, bufPair |-> getBufPair,
     out |-> FALSE, leader |-> 0]
\* Faulty variant for C26: the record goes back to the pool with its bytes.
freeKeepsBytes(f) == [f EXCEPT !.err = nil, !.out = FALSE]
\* freeInflightFetch, lines 1093-1098
freeInflightFetch(f) == [f EXCEPT !.bufPair = getBufPair, !.err = nil, !.out = FALSE]

\* Faulty variant for C3: the lookup never finds a record.
lookupNever(table, id) == FALSE
\* inflight, ok := r.inflightFetches[fetchID], line 621
lookupFetch(table, id) == table[id] # 0
\* Faulty variant for C4: the leader does not register its record.
insertNowhere(table, id, rec) == table
\* r.inflightFetches[fetchID] = inflight, line 644
insertFetch(table, id, rec) == [table EXCEPT ![id] = rec]
\* Faulty variant for C25: the key stays in the table.
deleteNothing(table, id) == table
\* delete(r.inflightFetches, fetchID), line 662
deleteFetch(table, id) == [table EXCEPT ![id] = 0]

\* the caller's copy of the shared BufPair, lines 627-638 and 651-657
copyShared(buf, shared) ==
    BufPair(IF HasData(shared) THEN buf.Data \o shared.Data ELSE buf.Data,
            IF HasErrors(shared) THEN buf.Errors \o shared.Errors ELSE buf.Errors)
\* the leader's err after lines 651-657: the result of the last Write
leaderErr(e, shared) == IF HasData(shared) \/ HasErrors(shared) THEN nil ELSE e

NewCaller(u, i, d) ==
    [uniqueIdentifier |-> u, preparedInput |-> i, DisallowSingleFlight |-> d,
     pc |-> "idle", fetchID |-> "", inflight |-> 0, buf |-> getBufPair, err |-> nil,
     ret |-> "none", saw |-> {}]
\* The fetches of the callers.  Callers are interchangeable and so are inputs:
\* all callers make the same fetch, or the last makes another one; none
\* disallows the loader, or the first does.
SameFetch == [c \in Callers |-> NewCaller("a", "b", FALSE)]
CallerSets ==
    {[c \in Callers |-> NewCaller("a", IF other /\ c = NCallers THEN "c" ELSE "b",
                                  disallow /\ c = 1)] :
       other \in BOOLEAN, disallow \in BOOLEAN}
\* the positions of a leader between its insert and its delete
KeyHeld == {"leaderUnlock", "load", "loading", "publish", "lockDelete"}
\* the leaders whose key id is in the table, as their positions tell
Holders(id) == {d \in Callers : caller[d].fetchID = id /\ caller[d].pc \in KeyHeld}
\* the Load calls of caller c
LoadsOf(c) == {n \in 1..Len(loads) : loads[n].caller = c}
\* the records never handed out and not in the pool
Fresh == {r \in Records : ~inflight[r].out /\ r \notin inflightFetchPool}
\* getInflightFetch: a pooled record, or a new one
Available ==
    inflightFetchPool \cup {r \in Fresh : \A q \in Fresh : r <= q}

TreeIdle ==
    /\ response = Null
    /\ upstream = NoData
    /\ ctx = Context(NoData, Identity(MaxItems), <<0, 1>>)
    /\ pc = "idle"
    /\ writer = <<>>
    /\ err = nil
    /\ log = <<>>

InitFlight ==
    /\ TreeIdle
    /\ ArrayIdle
    /\ PoolIdle
    /\ FetchIdle
    /\ ErrorIdle
    /\ TransformIdle
    /\ EnableSingleFlightLoader \in BOOLEAN
    /\ inflightFetchMu = 0
    /\ inflightFetches = [id \in FetchIDs |-> 0]
    /\ inflightFetchPool = {}
    /\ inflight = [r \in Records |-> newInflightFetch]
    /\ freeing = {}
    /\ caller \in IF EnableSingleFlightLoader THEN CallerSets ELSE {SameFetch}
    /\ loads = <<>>
    /\ concurrent = TRUE

Began(c) ==
    concurrent' = (concurrent /\ \A d \in Callers : caller[d].pc # "done")

\* lines 609-610: the loader is off or the fetch disallows it
CallDirect(c) ==
    /\ caller[c].pc = "idle"
    /\ ~EnableSingleFlightLoader \/ caller[c].DisallowSingleFlight
    /\ caller' = [caller EXCEPT ![c].pc = "direct"]
    /\ loads' = Append(loads, [caller |-> c, direct |-> TRUE, returned |-> FALSE,
                               deleted |-> FALSE, result |-> NoResult,
                               fetchID |-> fetchID(caller[c].uniqueIdentifier,
                                                   caller[c].preparedInput)])
    /\ Began(c)
    /\ UNCHANGED <<treeVars, arrayVars, fetchVars, errorVars, transformVars,
                   EnableSingleFlightLoader, inflightFetchMu,
                   inflightFetches, inflightFetchPool, inflight, freeing>>
    /\ UNCHANGED poolVars

\* line 610: Load returns res
DirectReturn(c, res) ==
    /\ caller[c].pc = "direct"
    /\ caller' = [caller EXCEPT ![c].pc = "done", ![c].buf = loadInto(@, res),
                                ![c].ret = res.err]
    /\ loads' = [n \in 1..Len(loads) |->
                   IF loads[n].caller = c
                   THEN [loads[n] EXCEPT !.returned = TRUE, !.result = res]
                   ELSE loads[n]]
    /\ UNCHANGED <<treeVars, arrayVars, fetchVars, errorVars, transformVars,
                   EnableSingleFlightLoader, inflightFetchMu,
                   inflightFetches, inflightFetchPool, inflight, freeing, concurrent>>
    /\ UNCHANGED poolVars

\* lines 613-618: the fetchID
CallSingleFlight(c) ==
    /\ caller[c].pc = "idle"
    /\ EnableSingleFlightLoader /\ ~caller[c].DisallowSingleFlight
    /\ caller' = [caller EXCEPT ![c].pc = "lock",
                                ![c].fetchID = fetchID(caller[c].uniqueIdentifier,
                                                       caller[c].preparedInput)]
    /\ Began(c)
    /\ UNCHANGED <<treeVars, arrayVars, fetchVars, errorVars, transformVars,
                   EnableSingleFlightLoader, inflightFetchMu,
                   inflightFetches, inflightFetchPool, inflight, freeing, loads>>
    /\ UNCHANGED poolVars

\* lines 620-624: the mutex taken, the fetch is in flight; the caller becomes
\* a dependent
LookupFound(c) ==
    /\ caller[c].pc = "lock"
    /\ inflightFetchMu = 0
    /\ inflightFetchMu' = c
    /\ lookupFetch(inflightFetches, caller[c].fetchID)
    /\ inflight' = [inflight EXCEPT ![inflightFetches[caller[c].fetchID]].waitFree = @ + 1]
    /\ caller' = [caller EXCEPT ![c].pc = "dependentUnlock",
                                ![c].inflight = inflightFetches[caller[c].fetchID],
                                ![c].saw = Holders(caller[c].fetchID)]
    /\ UNCHANGED <<treeVars, arrayVars, fetchVars, errorVars, transformVars,
                   EnableSingleFlightLoader,
                   inflightFetches, inflightFetchPool, freeing, loads, concurrent>>
    /\ UNCHANGED poolVars

\* lines 620-622 and 642-644: the mutex taken, the fetch is not in flight; the
\* caller becomes the leader
LookupMissing(c, rec) ==
    /\ caller[c].pc = "lock"
    /\ inflightFetchMu = 0
    /\ inflightFetchMu' = c
    /\ ~lookupFetch(inflightFetches, caller[c].fetchID)
    /\ rec \in Available
    /\ inflightFetchPool' = inflightFetchPool \ {rec}
    /\ inflight' = [inflight EXCEPT ![rec].waitLoad = @ + 1, ![rec].out = TRUE,
                                    ![rec].leader = c]
    /\ inflightFetches' = insertFetch(inflightFetches, caller[c].fetchID, rec)
    /\ caller' = [caller EXCEPT ![c].pc = "leaderUnlock", ![c].inflight = rec,
                                ![c].saw = Holders(caller[c].fetchID)]
    /\ UNCHANGED <<treeVars, arrayVars, fetchVars, errorVars, transformVars,
                   EnableSingleFlightLoader, freeing, loads, concurrent>>
    /\ UNCHANGED poolVars

\* r.inflightFetchMu.Unlock(), lines 625 and 646
Unlock(c) ==
    /\ caller[c].pc \in {"dependentUnlock", "leaderUnlock"}
    /\ inflightFetchMu' = 0
    /\ caller' = [caller EXCEPT ![c].pc = IF @ = "leaderUnlock" THEN "load" ELSE "waitLoad"]
    /\ UNCHANGED <<treeVars, arrayVars, fetchVars, errorVars, transformVars,
                   EnableSingleFlightLoader, inflightFetches,
                   inflightFetchPool, inflight, freeing, loads, concurrent>>
    /\ UNCHANGED poolVars

\* line 648: the leader calls Load
LoadStart(c) ==
    /\ caller[c].pc = "load"
    /\ caller' = [caller EXCEPT ![c].pc = "loading"]
    /\ loads' = Append(loads, [caller |-> c, direct |-> FALSE, returned |-> FALSE,
                               deleted |-> FALSE, result |-> NoResult,
                               fetchID |-> caller[c].fetchID])
    /\ UNCHANGED <<treeVars, arrayVars, fetchVars, errorVars, transformVars,
                   EnableSingleFlightLoader, inflightFetchMu,
                   inflightFetches, inflightFetchPool, inflight, freeing, concurrent>>
    /\ UNCHANGED poolVars

\* line 648: Load returns res, written into the record's BufPair
LoadReturn(c, res) ==
    /\ caller[c].pc = "loading"
    /\ inflight' = [inflight EXCEPT ![caller[c].inflight].bufPair = loadInto(@, res)]
    /\ caller' = [caller EXCEPT ![c].pc = "publish", ![c].err = res.err]
    /\ loads' = [n \in 1..Len(loads) |->
                   IF loads[n].caller = c
                   THEN [loads[n] EXCEPT !.returned = TRUE, !.result = res]
                   ELSE loads[n]]
    /\ UNCHANGED <<treeVars, arrayVars, fetchVars, errorVars, transformVars,
                   EnableSingleFlightLoader, inflightFetchMu,
                   inflightFetches, inflightFetchPool, freeing, concurrent>>
    /\ UNCHANGED poolVars

\* Faulty variant for C33: the leader never fires the ready latch.
waitLoadHeld(counter) == counter
\* line 659: inflight.waitLoad.Done()
waitLoadDone(counter) == counter - 1

\* lines 649-659: the error recorded, the leader's copy, waitLoad.Done()
Publish(c) ==
    /\ caller[c].pc = "publish"
    /\ inflight' = [inflight EXCEPT ![caller[c].inflight].err = caller[c].err,
                                    ![caller[c].inflight].waitLoad = waitLoadDone(@)]
    /\ caller' = [caller EXCEPT
                    ![c].pc = "lockDelete",
                    ![c].buf = copyShared(@, inflight[caller[c].inflight].bufPair),
                    ![c].err = leaderErr(@, inflight[caller[c].inflight].bufPair)]
    /\ UNCHANGED <<treeVars, arrayVars, fetchVars, errorVars, transformVars,
                   EnableSingleFlightLoader, inflightFetchMu,
                   inflightFetches, inflightFetchPool, freeing, loads, concurrent>>
    /\ UNCHANGED poolVars

\* lines 661-662: the mutex taken, the key deleted
Delete(c) ==
    /\ caller[c].pc = "lockDelete"
    /\ inflightFetchMu = 0
    /\ inflightFetchMu' = c
    /\ inflightFetches' = deleteFetch(inflightFetches, caller[c].fetchID)
    /\ caller' = [caller EXCEPT ![c].pc = "unlockDelete"]
    /\ loads' = [n \in 1..Len(loads) |->
                   IF loads[n].caller = c THEN [loads[n] EXCEPT !.deleted = TRUE]
                   ELSE loads[n]]
    /\ UNCHANGED <<treeVars, arrayVars, fetchVars, errorVars, transformVars,
                   EnableSingleFlightLoader, inflightFetchPool,
                   inflight, freeing, concurrent>>
    /\ UNCHANGED poolVars

\* lines 663-670: Unlock, the goroutine that will free the record, return
LeaderReturn(c) ==
    /\ caller[c].pc = "unlockDelete"
    /\ inflightFetchMu' = 0
    /\ freeing' = freeing \cup {caller[c].inflight}
    /\ caller' = [caller EXCEPT ![c].pc = "done", ![c].ret = caller[c].err]
    /\ UNCHANGED <<treeVars, arrayVars, fetchVars, errorVars, transformVars,
                   EnableSingleFlightLoader, inflightFetches,
                   inflightFetchPool, inflight, loads, concurrent>>
    /\ UNCHANGED poolVars

\* line 626: inflight.waitLoad.Wait() returns
WaitLoad(c) ==
    /\ caller[c].pc = "waitLoad"
    /\ inflight[caller[c].inflight].waitLoad = 0
    /\ caller' = [caller EXCEPT ![c].pc = "copy"]
    /\ UNCHANGED <<treeVars, arrayVars, fetchVars, errorVars, transformVars,
                   EnableSingleFlightLoader, inflightFetchMu,
                   inflightFetches, inflightFetchPool, inflight, freeing, loads,
                   concurrent>>
    /\ UNCHANGED poolVars

\* lines 627-639: the dependent's copy and the error it returns
Copy(c) ==
    /\ caller[c].pc = "copy"
    /\ caller' = [caller EXCEPT
                    ![c].pc = "release",
                    ![c].buf = copyShared(@, inflight[caller[c].inflight].bufPair),
                    ![c].ret = inflight[caller[c].inflight].err]
    /\ UNCHANGED <<treeVars, arrayVars, fetchVars, errorVars, transformVars,
                   EnableSingleFlightLoader, inflightFetchMu,
                   inflightFetches, inflightFetchPool, inflight, freeing, loads,
                   concurrent>>
    /\ UNCHANGED poolVars

\* line 624: the deferred inflight.waitFree.Done()
Release(c) ==
    /\ caller[c].pc = "release"
    /\ inflight' = [inflight EXCEPT ![caller[c].inflight].waitFree = @ - 1]
    /\ caller' = [caller EXCEPT ![c].pc = "done"]
    /\ UNCHANGED <<treeVars, arrayVars, fetchVars, errorVars, transformVars,
                   EnableSingleFlightLoader, inflightFetchMu,
                   inflightFetches, inflightFetchPool, freeing, loads, concurrent>>
    /\ UNCHANGED poolVars

\* lines 666-667: waitFree.Wait() returns and the record goes back to the pool
Free(rec) ==
    /\ rec \in freeing
    /\ inflight[rec].waitFree = 0
    /\ inflight' = [inflight EXCEPT ![rec] = freeInflightFetch(@)]
    /\ inflightFetchPool' = inflightFetchPool \cup {rec}
    /\ freeing' = freeing \ {rec}
    /\ UNCHANGED <<treeVars, arrayVars, fetchVars, errorVars, transformVars,
                   EnableSingleFlightLoader, inflightFetchMu,
                   inflightFetches, caller, loads, concurrent>>
    /\ UNCHANGED poolVars

NextFlight ==
    \/ \E c \in Callers : CallDirect(c)
    \/ \E c \in Callers : \E res \in LoadResults : DirectReturn(c, res)
    \/ \E c \in Callers : CallSingleFlight(c)
    \/ \E c \in Callers : LookupFound(c)
    \/ \E c \in Callers : \E rec \in Records : LookupMissing(c, rec)
    \/ \E c \in Callers : Unlock(c)
    \/ \E c \in Callers : LoadStart(c)
    \/ \E c \in Callers : \E res \in LoadResults : LoadReturn(c, res)
    \/ \E c \in Callers : Publish(c)
    \/ \E c \in Callers : Delete(c)
    \/ \E c \in Callers : LeaderReturn(c)
    \/ \E c \in Callers : WaitLoad(c)
    \/ \E c \in Callers : Copy(c)
    \/ \E c \in Callers : Release(c)
    \/ \E rec \in Records : Free(rec)

SpecFlight == InitFlight /\ [][NextFlight]_vars

\* ------------------------------------------------ the error-object writers
\* One call of BufPair.WriteErr on b, or of Resolver.writeErrSafe on writer
\* with the error err handed in, for every choice of arguments.
Messages == {Bytes(<<"m">>), Bytes(<<"n">>)}
LocationsArgs == {NilBytes, Bytes(<<"[]">>), Bytes(<<"[{\"line\":1,\"column\":2}]">>)}
PathArgs == {NilBytes, Bytes(<<"[]">>), Bytes(<<"[\"a\"]">>)}

InitError ==
    /\ response = Null
    /\ upstream = NoData
    /\ ctx = Context(NoData, Identity(MaxItems), <<0, 1>>)
    /\ pc = "idle"
    /\ writer = <<>>
    /\ err \in {nil, "write failed"}
    /\ log = <<>>
    /\ ArrayIdle
    /\ PoolIdle
    /\ FlightIdle
    /\ FetchIdle
    /\ TransformIdle
    /\ b \in {getBufPair, BufPair(<<>>, <<ErrorObject("e")>>)}
    /\ message \in Messages
    /\ locations \in LocationsArgs
    /\ path \in PathArgs

\* b.WriteErr(message, locations, path)
CallWriteErr ==
    /\ pc = "idle"
    /\ b' = WriteErr(b, message, locations, path)
    /\ pc' = "WriteErr"
    /\ UNCHANGED <<response, upstream, ctx, writer, err, log, message, locations, path>>
    /\ UNCHANGED <<arrayVars, flightVars, fetchVars, transformVars>>
    /\ UNCHANGED poolVars

\* writeErrSafe has returned r
WriteErrSafeReturned(r) ==
    /\ writer' = r.writer
    /\ err' = r.err

\* r.writeErrSafe(err, writer, message, locations, path)
CallWriteErrSafe ==
    /\ pc = "idle"
    /\ WriteErrSafeReturned(writeErrSafe(err, writer, message, locations, path))
    /\ pc' = "writeErrSafe"
    /\ UNCHANGED <<response, upstream, ctx, log>>
    /\ UNCHANGED <<arrayVars, flightVars, fetchVars, errorVars, transformVars>>
    /\ UNCHANGED poolVars

NextError == CallWriteErr \/ CallWriteErrSafe

SpecError == InitError /\ [][NextError]_vars

\* ---------------------------------------- resolveFetch on a ParallelFetch
\* resolveFetch, lines 572-597, one step of the primary thread or of a worker
\* at a time.  fetch is the ParallelFetch, upstream the data its inputs are
\* rendered from, pc the primary thread's position, loads the calls of Load.
SourceNames == <<"s0", "s1", "s2", "s3">>
FetchDataSources(id) ==
    {DataSource(id, UpstreamObject, <<>>, nil),
     DataSource(id, NoData, <<ErrorObject(id)>>, nil),
     DataSource(id, NoData, <<>>, "load failed")}
\* a static input, an input with a variable of the object, and an input
\* whose variable has a source that is neither the object nor the context
InputTemplates ==
    {Query, <<VariableSegment("Object", <<"id">>)>>, <<VariableSegment("Unknown", <<"id">>)>>}
\* the batches of NFetches fetches with the BufferIds 0, 1, ...
ParallelFetches ==
    {FetchParallel([i \in 1..NFetches |->
                      SingleFetch(i - 1, ds[i], FALSE, tmpl[i])]) :
       ds \in {f \in [1..NFetches -> UNION {FetchDataSources(SourceNames[i]) : i \in 1..NFetches}] :
                 \A i \in 1..NFetches : f[i] \in FetchDataSources(SourceNames[i])},
       tmpl \in [1..NFetches -> InputTemplates]}

InitFetch ==
    /\ response = Null
    /\ upstream \in {JObj(<<KV("id", JNum("1"))>>), JObj(<<>>)}
    /\ ctx = Context(NoData, Identity(MaxItems), <<0, 1>>)
    /\ pc = "prepare"
    /\ writer = <<>>
    /\ err = nil
    /\ log = <<>>
    /\ ArrayIdle
    /\ PoolIdle
    /\ FlightIdle
    /\ ErrorIdle
    /\ TransformIdle
    /\ fetch \in ParallelFetches
    /\ set = <<>>
    /\ preparedInputs = <<>>

\* Faulty variant for C31: the error of prepareSingleFetch is not tested.
prepareNeverFailed(e) == FALSE
\* lines 577-579: `if err != nil { return err }` after prepareSingleFetch
prepareFailed(e) == e # nil

\* lines 575-581: the next input was prepared (p)
FetchPrepared(p) ==
    /\ set' = p.set
    /\ err' = p.err
    /\ IF prepareFailed(p.err)
       THEN pc' = "done" /\ UNCHANGED preparedInputs
       ELSE /\ preparedInputs' = Append(preparedInputs, p.preparedInput)
            /\ pc' = IF Len(preparedInputs) + 1 = Len(fetch.Fetches) THEN "spawn"
                     ELSE "prepare"
FetchPrepare ==
    /\ pc = "prepare"
    /\ FetchPrepared(prepareSingleFetch(ctx, fetch.Fetches[Len(preparedInputs) + 1],
                                        upstream, set))
    /\ UNCHANGED <<response, upstream, ctx, writer, log, fetch>>
    /\ UNCHANGED <<arrayVars, flightVars, errorVars, transformVars>>
    /\ UNCHANGED poolVars

\* line 588: the BufPair handed to the worker of fetch i, named by the
\* BufferId it is stored under
workerBuf(fetches, i) == fetches[i].BufferId

\* lines 585-593: wg.Add(1) and the go statement for the next fetch
FetchSpawn ==
    /\ pc = "spawn"
    /\ wg' = wg + 1
    /\ worker' = Append(worker,
                        [pc |-> "go", s |-> Len(worker) + 1,
                         buf |-> workerBuf(fetch.Fetches, Len(worker) + 1),
                         preparedInput |-> preparedInputs[Len(worker) + 1]])
    /\ pc' = IF Len(worker) + 1 = Len(fetch.Fetches) THEN "wait" ELSE "spawn"
    /\ UNCHANGED <<response, upstream, ctx, writer, err, log>>
    /\ UNCHANGED <<arrayItems, arrayBuf, bufSlice, errCh>>
    /\ UNCHANGED <<flightVars, fetchVars, errorVars, transformVars>>
    /\ UNCHANGED poolVars

\* line 591: resolveSingleFetch of worker i has returned r, its error dropped
FetchWorkerResolved(i, r) ==
    /\ set' = [set EXCEPT ![worker[i].buf] = r.buf]
    /\ loads' = Append(loads, [worker |-> i, s |-> worker[i].s, buf |-> worker[i].buf,
                               err |-> r.err])
    /\ worker' = [worker EXCEPT ![i].pc = "resolved"]
FetchWorkerResolve(i) ==
    /\ worker[i].pc = "go"
    /\ FetchWorkerResolved(i, resolveSingleFetchDirect(ctx, fetch.Fetches[worker[i].s],
                                  worker[i].preparedInput, set[worker[i].buf]))
    /\ UNCHANGED <<treeVars, arrayItems, arrayBuf, bufSlice, errCh, wg>>
    /\ UNCHANGED <<EnableSingleFlightLoader, inflightFetchMu, inflightFetches,
                   inflightFetchPool, inflight, freeing, caller, concurrent>>
    /\ UNCHANGED <<fetch, preparedInputs, errorVars, transformVars>>
    /\ UNCHANGED poolVars

\* line 592: wg.Done()
FetchWorkerDone(i) ==
    /\ worker[i].pc = "resolved"
    /\ wg' = wg - 1
    /\ worker' = [worker EXCEPT ![i].pc = "done"]
    /\ UNCHANGED <<treeVars, arrayItems, arrayBuf, bufSlice, errCh>>
    /\ UNCHANGED <<flightVars, fetchVars, errorVars, transformVars>>
    /\ UNCHANGED poolVars


\* lines 595-597: wg.Wait() and the return of err
FetchWait ==
    /\ pc = "wait"
    /\ waitGroupDone(wg)
    /\ pc' = "done"
    /\ UNCHANGED <<response, upstream, ctx, writer, err, log>>
    /\ UNCHANGED <<arrayVars, flightVars, fetchVars, errorVars, transformVars>>
    /\ UNCHANGED poolVars

NextFetch ==
    \/ FetchPrepare
    \/ FetchSpawn
    \/ \E i \in 1..Len(worker) : FetchWorkerResolve(i)
    \/ \E i \in 1..Len(worker) : FetchWorkerDone(i)
    \/ FetchWait

SpecFetch == InitFetch /\ [][NextFetch]_vars

\* ------------------------------------------------------- the Transformer
\* The input documents: one selection set, ref 1, whose selections are
\* given by a shape, "F" a field named after its position, "T" a
\* __typename field, "I" an inline fragment on Bird holding one field.
FieldNames == <<"a", "b", "c", "d", "e", "f", "g", "h">>
\* the fragment of shape position i added to selection set 1 of d
fragmentBuilt(d) ==
    AddSelection(AddInlineFragment(d, InlineFragment(TypeCondition(Len(d.Types)), TRUE,
                                                     Len(d.SelectionSets))),
                 1, Selection(SelectionKindInlineFragment, Len(d.InlineFragments) + 1))
fieldBuilt(d, ref) == AddSelection(d, ref, Selection(SelectionKindField, Len(d.Fields)))
RECURSIVE BuildDocument(_, _, _)
BuildDocument(d, shape, i) ==
    IF i > Len(shape) THEN d
    ELSE BuildDocument(
           CASE shape[i] = "F" -> fieldBuilt(AddField(d, AstField(FieldNames[i])), 1)
             [] shape[i] = "T" -> fieldBuilt(AddField(d, AstField(literalTYPENAME)), 1)
             [] shape[i] = "I" ->
                  fragmentBuilt(fieldBuilt(AddField(AddNamedType(AddSelectionSet(d), "Bird"),
                                                    AstField("wings")),
                                           Len(d.SelectionSets) + 1)),
           shape, i + 1)
Count(shape, symbol) == Cardinality({i \in 1..Len(shape) : shape[i] = symbol})
Shapes ==
    {shape \in UNION {[1..n -> {"F", "T", "I"}] : n \in 0..MaxSelections} :
       Count(shape, "T") <= 1 /\ Count(shape, "I") <= 1}
Documents == {BuildDocument(AddSelectionSet(EmptyDocument), shape, 1) : shape \in Shapes}
TypeNameLists == {<<"Dog">>, <<"Dog", "Cat">>}
\* the selection sets a transformation is registered for
TargetSets(d) == {ref \in {1, 2} : ref <= Len(d.SelectionSets)}

\* A Transformer: registrations of ExpandInterfaceSelectionSet in any
\* order of precedences, then one call of ApplyTransformations.
InitTransform ==
    /\ response = Null
    /\ upstream = NoData
    /\ ctx = Context(NoData, Identity(MaxItems), <<0, 1>>)
    /\ pc = "register"
    /\ writer = <<>>
    /\ err = nil
    /\ log = <<>>
    /\ ArrayIdle
    /\ PoolIdle
    /\ FlightIdle
    /\ FetchIdle
    /\ ErrorIdle
    /\ document \in {BuildDocument(AddSelectionSet(EmptyDocument), shape, 1) :
                       shape \in {<<"F", "I">>, <<"T", "F", "F">>}}
    /\ actions = <<>>
    /\ applied = <<>>

\* t.ExpandInterfaceSelectionSet(precedence, selectionSet, concreteTypeNames)
RegisterExpandInterfaceSelectionSet ==
    /\ pc = "register"
    /\ Len(actions) < MaxActions
    /\ \E depth \in 1..MaxDepth, order \in {0, 1}, selectionSet \in TargetSets(document) :
         actions' = Append(actions,
                           action(Precedence(depth, order),
                                  expandInterfaceSelectionSet(selectionSet, <<"Dog", "Cat">>),
                                  Len(actions) + 1))
    /\ UNCHANGED <<document, applied>>
    /\ UNCHANGED <<treeVars, arrayVars, flightVars, fetchVars, errorVars>>
    /\ UNCHANGED poolVars

\* t.ApplyTransformations(document)
ApplyTransformations ==
    /\ pc = "register"
    /\ actions' \in sortSlice(actions)
    /\ applied' = [k \in 1..Len(actions) |->
                     Applied(actions'[k].transformation,
                             applyAll(actions', k - 1, document),
                             applyAll(actions', k, document))]
    /\ document' = applyAll(actions', Len(actions), document)
    /\ pc' = "applied"
    /\ UNCHANGED <<response, upstream, ctx, writer, err, log>>
    /\ UNCHANGED <<arrayVars, flightVars, fetchVars, errorVars>>
    /\ UNCHANGED poolVars

NextTransform ==
    \/ RegisterExpandInterfaceSelectionSet
    \/ ApplyTransformations

SpecTransform == InitTransform /\ [][NextTransform]_vars

\* ------------------------------------- expansion of interface selection sets
\* expandInterfaceSelectionSet.apply on a document, up to MaxApplications
\* times, for every input document, selection set and list of type names.
InitExpand ==
    /\ response = Null
    /\ upstream = NoData
    /\ ctx = Context(NoData, Identity(MaxItems), <<0, 1>>)
    /\ pc = "apply"
    /\ writer = <<>>
    /\ err = nil
    /\ log = <<>>
    /\ ArrayIdle
    /\ PoolIdle
    /\ FlightIdle
    /\ FetchIdle
    /\ ErrorIdle
    /\ document \in Documents
    /\ actions = <<>>
    /\ applied = <<>>

Apply ==
    /\ pc = "apply"
    /\ Len(applied) < MaxApplications
    /\ \E selectionSet \in TargetSets(document), concreteTypeNames \in TypeNameLists :
         /\ document' = apply(expandInterfaceSelectionSet(selectionSet, concreteTypeNames),
                              document)
         /\ applied' = Append(applied,
                              Applied(expandInterfaceSelectionSet(selectionSet,
                                                                  concreteTypeNames),
                                      document, document'))
    /\ UNCHANGED actions
    /\ UNCHANGED <<treeVars, arrayVars, flightVars, fetchVars, errorVars>>
    /\ UNCHANGED poolVars

NextExpand == Apply

SpecExpand == InitExpand /\ [][NextExpand]_vars

\* ------------------------------------------------- inline fragments
\* One call of expandInterfaceInlineFragment.apply, of
\* promoteUnionInlineFragments.apply or of the EnterSelectionSet of
\* deleteInvalidInlineFragments on a document whose selection set 1 holds
\* fields and up to two inline fragments.
FieldShape == [field |-> TRUE, type |-> "", selections |-> <<>>]
FragmentShape(type, selections) == [field |-> FALSE, type |-> type, selections |-> selections]
FragmentShapes ==
    {FragmentShape("Dog", <<FieldShape>>), FragmentShape("Cat", <<FieldShape>>),
     FragmentShape("Bird", <<FieldShape>>), FragmentShape("", <<FieldShape>>),
     FragmentShape("Dog", <<>>), FragmentShape("Cat", <<>>),
     FragmentShape("Pet", <<FieldShape, FragmentShape("Cat", <<FieldShape>>)>>)}
\* the inline fragment on typeRef with the selection set selectionSet, added
\* to selection set ref of d
fragmentShapeBuilt(d, ref, typeRef, selectionSet) ==
    AddSelection(AddInlineFragment(d, InlineFragment(TypeCondition(typeRef), TRUE,
                                                     selectionSet)),
                 ref, Selection(SelectionKindInlineFragment, Len(d.InlineFragments) + 1))
namedTypeBuilt(d, ref, type, selectionSet) ==
    IF type = "" THEN fragmentShapeBuilt(d, ref, 0, selectionSet)
    ELSE fragmentShapeBuilt(AddNamedType(d, type), ref, Len(d.Types) + 1, selectionSet)
RECURSIVE BuildSelections(_, _, _, _)
BuildSelections(d, ref, shape, i) ==
    IF i > Len(shape) THEN d
    ELSE IF shape[i].field
         THEN BuildSelections(fieldBuilt(AddField(d, AstField(FieldNames[i])), ref),
                              ref, shape, i + 1)
         ELSE BuildSelections(
                  namedTypeBuilt(
                      BuildSelections(AddSelectionSet(d), Len(d.SelectionSets) + 1,
                                      shape[i].selections, 1),
                      ref, shape[i].type, Len(d.SelectionSets) + 1),
                  ref, shape, i + 1)
ParentShapes ==
    {shape \in UNION {[1..n -> {FieldShape} \cup FragmentShapes] : n \in 0..MaxParent} :
       Cardinality({i \in 1..Len(shape) : ~shape[i].field}) <= 2}
FragmentDocuments ==
    {BuildSelections(AddSelectionSet(EmptyDocument), 1, shape, 1) : shape \in ParentShapes}
\* the inline fragments that selection set ref of d selects
FragmentsOf(d, ref) ==
    {d.Selections[s].Ref : s \in {t \in {d.SelectionSets[ref].SelectionRefs[i] :
                                           i \in 1..Len(d.SelectionSets[ref].SelectionRefs)} :
                                    d.Selections[t].Kind = SelectionKindInlineFragment}}
EnclosingTypeDefinitions == ObjectTypeDefinitions \cup InterfaceTypeDefinitions

InitFragment ==
    /\ response = Null
    /\ upstream = NoData
    /\ ctx = Context(NoData, Identity(MaxItems), <<0, 1>>)
    /\ pc = "fragment"
    /\ writer = <<>>
    /\ err = nil
    /\ log = <<>>
    /\ ArrayIdle
    /\ PoolIdle
    /\ FlightIdle
    /\ FetchIdle
    /\ ErrorIdle
    /\ document \in FragmentDocuments
    /\ actions = <<>>
    /\ applied = <<>>

ApplyExpandInterfaceInlineFragment ==
    /\ pc = "fragment"
    /\ applied = <<>>
    /\ \E parentSelectionSet \in 1..Len(document.SelectionSets),
          concreteTypeNames \in TypeNameLists \cup {<<>>} :
         \E inlineFragment \in FragmentsOf(document, parentSelectionSet) :
           /\ document' = applyExpandInterfaceInlineFragment(
                              expandInterfaceInlineFragment(inlineFragment, parentSelectionSet,
                                                            concreteTypeNames),
                              document)
           /\ applied' = <<Applied(expandInterfaceInlineFragment(inlineFragment,
                                                                 parentSelectionSet,
                                                                 concreteTypeNames),
                                   document, document')>>
    /\ UNCHANGED actions
    /\ UNCHANGED <<treeVars, arrayVars, flightVars, fetchVars, errorVars>>
    /\ UNCHANGED poolVars

ApplyPromoteUnionInlineFragments ==
    /\ pc = "fragment"
    /\ applied = <<>>
    /\ \E parentSelectionSet \in 1..Len(document.SelectionSets) :
         \E inlineFragment \in FragmentsOf(document, parentSelectionSet) :
           /\ document' = applyPromoteUnionInlineFragments(
                              promoteUnionInlineFragments(inlineFragment, parentSelectionSet),
                              document)
           /\ applied' = <<Applied(promoteUnionInlineFragments(inlineFragment,
                                                               parentSelectionSet),
                                   document, document')>>
    /\ UNCHANGED actions
    /\ UNCHANGED <<treeVars, arrayVars, flightVars, fetchVars, errorVars>>
    /\ UNCHANGED poolVars

\* the walker enters selection set ref inside the type enclosingTypeDefinition
DeleteInvalidInlineFragments ==
    /\ pc = "fragment"
    /\ applied = <<>>
    /\ \E ref \in 1..Len(document.SelectionSets),
          enclosingTypeDefinition \in EnclosingTypeDefinitions :
         /\ document' = EnterSelectionSet(document, ref, enclosingTypeDefinition)
         /\ applied' = <<Applied([selectionSet |-> ref,
                                  enclosingTypeDefinition |-> enclosingTypeDefinition],
                                 document, document')>>
    /\ UNCHANGED actions
    /\ UNCHANGED <<treeVars, arrayVars, flightVars, fetchVars, errorVars>>
    /\ UNCHANGED poolVars

NextFragment ==
    \/ ApplyExpandInterfaceInlineFragment
    \/ ApplyPromoteUnionInlineFragments
    \/ DeleteInvalidInlineFragments

SpecFragment == InitFragment /\ [][NextFragment]_vars

\* ------------------------------------------------------------------ claims
\* what resolving the root node left in the request's BufPair
Root == resolveNode(ctx, response, upstream, getBufPair)
Key(name) == <<quote, name, quote, colon>>

\* C1: when NonNullableFieldValueIsNull reaches the root of the plan, the
\* response written is {"data":null}.
C1_RootNullWritesDataNull ==
    (pc = "done" /\ Root.err = errNonNullableFieldValueIsNull)
        => writer = <<lBrace>> \o Key("data") \o <<null, rBrace>>

\* C2: in every Object or Array call of a request to which a field value or
\* an item returned NonNullableFieldValueIsNull, a nullable node returns no
\* error and leaves exactly null in its data buffer, and a non-nullable node
\* returns the error to its own caller.
C2_NullStopsAtNullable ==
    pc = "done" =>
        \A k \in 1..Len(log) :
            log[k].childErr = errNonNullableFieldValueIsNull =>
                IF log[k].Nullable
                THEN log[k].err = nil /\ log[k].Data = <<null>>
                ELSE log[k].err = errNonNullableFieldValueIsNull

\* C2 witness: the error of a leaf went through a non-nullable node and was
\* absorbed by the nullable node above it.
C2_Witness ==
    /\ pc = "done"
    /\ \E k \in 1..Len(log) : \E m \in 1..Len(log) :
          /\ k < m
          /\ log[k].childErr = errNonNullableFieldValueIsNull /\ ~log[k].Nullable
          /\ log[k].err = errNonNullableFieldValueIsNull
          /\ log[m].childErr = errNonNullableFieldValueIsNull /\ log[m].Nullable
          /\ log[m].Data = <<null>>
    /\ err = nil

\* the data an Object call resolved its FieldSets against
ObjectScope(e) == IF Len(e.node.Path) # 0 THEN Get(e.data, e.node.Path).value ELSE e.data
ObjectFetch(e) ==
    IF e.node.Fetch.FetchKind # "nil"
    THEN resolveFetch(ctx, e.node.Fetch, ObjectScope(e), <<>>)
    ELSE [err |-> nil, set |-> <<>>]
\* the source data of FieldSet i of the call
SourceData(e, i) ==
    FieldSetData(e.node.FieldSets[i], e.node.Fetch.FetchKind # "nil", ObjectFetch(e).set,
                 ObjectScope(e))
\* FieldSet i has no type condition, or the __typename of its source equals it
TypeNameMatches(e, i) ==
    \/ e.node.FieldSets[i].OnTypeName = <<>>
    \/ <<Get(SourceData(e, i), <<"__typename">>).value.s>> = e.node.FieldSets[i].OnTypeName
\* "name":value of field j of FieldSet i, the value resolved from the source
\* data of FieldSet i alone
EmittedField(e, i, j) ==
    LET f == e.node.FieldSets[i].Fields[j]
    IN  Key(f.Name) \o resolveNode(ctx, f.Value, SourceData(e, i), getBufPair).buf.Data
\* the fields of the FieldSets that match, in plan order
ExpectedFields(e) ==
    Flatten([i \in 1..Len(e.node.FieldSets) |->
               IF TypeNameMatches(e, i)
               THEN [j \in 1..Len(e.node.FieldSets[i].Fields) |-> EmittedField(e, i, j)]
               ELSE <<>>], 1)
RECURSIVE Join(_, _)
Join(seqs, k) ==
    IF k > Len(seqs) THEN <<>>
    ELSE (IF k > 1 THEN <<comma>> ELSE <<>>) \o seqs[k] \o Join(seqs, k + 1)
\* what the call appended to its data buffer
Emitted(e) == SubSeq(e.Data, e.pre + 1, Len(e.Data))
\* the call's fetch succeeded and no field value failed
Completed(e) == e.kind = "Object" /\ e.childErr = nil /\ ObjectFetch(e).err = nil

\* C8: every Object call whose fetch and field values succeed emits exactly
\* the fields of the FieldSets that have no type condition or whose source's
\* __typename equals it, each with the value resolved from its own FieldSet's
\* source data, and no field of any other FieldSet.
C8_TypeNameGating ==
    pc = "done" =>
        \A k \in 1..Len(log) :
            Completed(log[k]) =>
                IF ExpectedFields(log[k]) = <<>>
                THEN Emitted(log[k]) \in {<<>>, <<null>>}
                ELSE Emitted(log[k]) =
                        <<lBrace>> \o Join(ExpectedFields(log[k]), 1) \o <<rBrace>>

\* C8 witness: an Object call emitted the fields of a FieldSet whose type
\* condition held and skipped another FieldSet whose condition did not.
C8_Witness ==
    /\ pc = "done"
    /\ \E k \in 1..Len(log) :
          /\ Completed(log[k]) /\ log[k].err = nil
          /\ \E i, j \in 1..Len(log[k].node.FieldSets) :
                /\ log[k].node.FieldSets[i].OnTypeName # <<>> /\ TypeNameMatches(log[k], i)
                /\ ~TypeNameMatches(log[k], j)
          /\ Emitted(log[k]) = <<lBrace>> \o Join(ExpectedFields(log[k]), 1) \o <<rBrace>>

\* caller c goes through the singleflight loader
Coalescing(c) == EnableSingleFlightLoader /\ ~caller[c].DisallowSingleFlight
HasReturned(c) == caller[c].pc = "done"
AllReturned == \A c \in Callers : HasReturned(c)
\* all callers pass the same (UniqueIdentifier, preparedInput) to the loader
Identical ==
    \A c, d \in Callers :
        /\ Coalescing(c)
        /\ caller[c].uniqueIdentifier = caller[d].uniqueIdentifier
        /\ caller[c].preparedInput = caller[d].preparedInput

\* C3 as stated: after NCallers concurrent identical calls Load has been
\* invoked exactly once and all callers hold the same data bytes.
C3_ExactlyOneLoad ==
    (AllReturned /\ concurrent /\ Identical)
        => /\ Len(loads) = 1
           /\ \A c, d \in Callers : caller[c].buf.Data = caller[d].buf.Data

\* C3 amended: a caller that looks its key up while a leader holds it in the
\* inflight table invokes no Load and ends with that leader's data bytes; a
\* caller that looks it up while no leader holds it invokes Load exactly once
\* and ends with the data bytes that Load wrote.
C3_OneLoadPerLeader ==
    \A c \in Callers :
        (HasReturned(c) /\ Coalescing(c)) =>
            IF caller[c].saw = {}
            THEN /\ Cardinality(LoadsOf(c)) = 1
                 /\ \A n \in LoadsOf(c) : caller[c].buf.Data = loads[n].result.data
            ELSE /\ LoadsOf(c) = {}
                 /\ Cardinality(caller[c].saw) = 1
                 /\ \A d \in caller[c].saw :
                       /\ Cardinality(LoadsOf(d)) = 1
                       /\ caller[c].buf.Data = caller[d].buf.Data

\* C3 witness: NCallers identical calls were served by one Load that wrote
\* data, one caller leading and the others depending on it.
C3_Witness ==
    /\ AllReturned /\ Identical
    /\ Len(loads) = 1
    /\ \E c \in Callers :
          /\ caller[c].saw = {} /\ caller[c].buf.Data # <<>>
          /\ \A d \in Callers \ {c} : caller[d].saw = {c}

\* C4: with the loader on, at most one Load per fetch key is executing, and
\* when a later Load for a key has started every earlier Load for that key
\* has returned and its key has been deleted from the inflight table.
C4_OneLoadPerKey ==
    EnableSingleFlightLoader =>
        \A id \in FetchIDs :
            /\ Cardinality({c \in Callers : caller[c].pc = "loading"
                                              /\ caller[c].fetchID = id}) <= 1
            /\ \A n, m \in 1..Len(loads) :
                  (/\ n < m
                   /\ ~loads[n].direct /\ ~loads[m].direct
                   /\ loads[n].fetchID = id /\ loads[m].fetchID = id)
                      => loads[n].returned /\ loads[n].deleted

\* C4 witness: a second Load for a key is executing, started after the first
\* Load for that key returned and the key was deleted.
C4_Witness ==
    /\ EnableSingleFlightLoader
    /\ \E n, m \in 1..Len(loads) :
          /\ n < m
          /\ ~loads[n].direct /\ ~loads[m].direct
          /\ loads[n].fetchID = loads[m].fetchID
          /\ loads[n].deleted /\ ~loads[m].returned
          /\ caller[loads[m].caller].pc = "loading"

\* the caller whose Load serves caller c
LeaderOf(c) == IF caller[c].saw = {} THEN c ELSE CHOOSE d \in caller[c].saw : TRUE

\* C5: every caller of a singleflight load, leader or dependent, ends with
\* the data and errors bytes that Load wrote and returns the error that Load
\* returned.
C5_SameResult ==
    \A c \in Callers :
        (HasReturned(c) /\ Coalescing(c)) =>
            \A n \in LoadsOf(LeaderOf(c)) :
                /\ caller[c].buf = BufPair(loads[n].result.data, loads[n].result.errors)
                /\ caller[c].ret = loads[n].result.err

\* what the serial resolution of the same items gives
Serial ==
    resolveArraySynchronous(ctx, response, arrayItems, getBufPair, Called(upstream, getBufPair))

\* C6: resolved in parallel, an array of one or more items returns the error
\* and, when that is none, leaves the bytes that serial resolution of the same
\* items returns and leaves.
C6_AsyncEqualsSync ==
    (pc = "done" /\ Len(arrayItems) >= 1)
        => err = Serial.err /\ (err = nil => arrayBuf = Serial.buf)

\* the resolution of source item i on its own
ItemResolution(i) == resolveNode(ctx, response.Item[1], arrayItems[i], getBufPair)
\* the resolutions of the source items that were not skipped, in source order
NonSkipped ==
    LET kept == SelectSeq(Identity(Len(arrayItems)),
                          LAMBDA i : ItemResolution(i).err # errTypeNameSkipped)
    IN  [k \in 1..Len(kept) |-> ItemResolution(kept[k]).buf.Data]

\* C7: an array whose items all resolved or were skipped holds [, the
\* resolutions of the non-skipped source items in source order separated by
\* commas, and ].
C7_ItemOrder ==
    (/\ pc = "done"
     /\ Len(arrayItems) >= 1
     /\ \A i \in 1..Len(arrayItems) : ItemResolution(i).err \in {nil, errTypeNameSkipped})
        => /\ err = nil
           /\ arrayBuf.Data = <<lBrack>> \o Join(NonSkipped, 1) \o <<rBrack>>

\* C9: TypeNameSkipped is never the error ResolveGraphQLResponse returns.
C9_TypeNameSkippedNeverReturned == pc = "done" => err # errTypeNameSkipped

\* C10: on success the envelope is {"errors":[<errors>],"data":<value>},
\* errors before data.
C10_Envelope ==
    (pc = "done" /\ err = nil /\ HasErrors(Root.buf) /\ HasData(Root.buf))
        => writer = <<lBrace>> \o Key("errors") \o <<lBrack>> \o Root.buf.Errors
                    \o <<rBrack, comma>> \o Key("data") \o Root.buf.Data \o <<rBrace>>

\* the bytes of an envelope member that is written only when present
Member(present, bytes) == IF present THEN bytes ELSE <<>>

\* C11: the envelope holds the errors member iff the root errors buffer is
\* non-empty, the data member iff the root data buffer is non-empty, a comma
\* between them iff both are there, and data is null when a nullable root
\* failed.
C11_EnvelopeMembers ==
    (pc = "done" /\ err = nil) =>
        /\ writer = <<lBrace>>
                    \o Member(HasErrors(Root.buf),
                              Key("errors") \o <<lBrack>> \o Root.buf.Errors \o <<rBrack>>)
                    \o Member(HasErrors(Root.buf) /\ HasData(Root.buf), <<comma>>)
                    \o Member(HasData(Root.buf), Key("data") \o Root.buf.Data)
                    \o <<rBrace>>
        /\ (/\ response.Nullable
            /\ Len(log) > 0
            /\ log[Len(log)].childErr = errNonNullableFieldValueIsNull)
               => Root.buf.Data = <<null>>

\* the members that follow the message member when locations and path are
\* supplied independently of each other, and the closing brace
ErrorTail ==
    Member(~locations.isNil, <<comma>> \o Key("locations") \o locations.bytes)
    \o Member(~path.isNil, <<comma>> \o Key("path") \o path.bytes)
    \o <<rBrace>>
\* out ends with ErrorTail and holds no locations or path member before it
EndsWithErrorTail(out) ==
    /\ Len(out) >= Len(ErrorTail)
    /\ SubSeq(out, Len(out) - Len(ErrorTail) + 1, Len(out)) = ErrorTail
    /\ \A i \in 1..(Len(out) - Len(ErrorTail)) : out[i] \notin {"locations", "path"}

\* C12: WriteErr and writeErrSafe emit the locations member iff locations is
\* given and the path member iff path is given, the path member holding the
\* bytes of path.
C12_LocationsPathIndependent ==
    /\ pc = "WriteErr" => EndsWithErrorTail(b.Errors)
    /\ (pc = "writeErrSafe" /\ err = nil) => EndsWithErrorTail(writer)

\* the inputs of the fetch of Object call e were all rendered
Prepared(e) ==
    CASE e.node.Fetch.FetchKind = "Single" ->
           prepareSingleFetch(ctx, e.node.Fetch.Fetches[1], ObjectScope(e), <<>>).err = nil
      [] e.node.Fetch.FetchKind = "Parallel" ->
           prepareAll(ctx, e.node.Fetch.Fetches, 1, ObjectScope(e), <<>>, <<>>).err = nil
      [] OTHER -> FALSE
\* the errors returned by the Loads that the fetch of Object call e issued
LoadErrors(e) ==
    IF e.kind = "Object" /\ Prepared(e)
    THEN {e.node.Fetch.Fetches[i].DataSource.err : i \in 1..Len(e.node.Fetch.Fetches)} \ {nil}
    ELSE {}

\* C13: when a Load issued by a SingleFetch or by a worker of a ParallelFetch
\* returned the context error, ResolveGraphQLResponse returns the context
\* error.
C13_ContextErrorPropagates ==
    pc = "done" =>
        \A k \in 1..Len(log) : contextCanceled \in LoadErrors(log[k]) => err = contextCanceled

\* C14: when fetches of a ParallelFetch returned errors, resolveFetch returns
\* one of them, the first surfaced, to the Object that owns the fetch.
C14_ParallelFetchReportsError ==
    pc = "done" =>
        \A k \in 1..Len(log) :
            (/\ log[k].kind = "Object"
             /\ log[k].node.Fetch.FetchKind = "Parallel"
             /\ LoadErrors(log[k]) # {})
                => ObjectFetch(log[k]).err \in LoadErrors(log[k])

\* the calls of Load made for fetch i of the batch
LoadsFor(i) == {n \in 1..Len(loads) : loads[n].s = i}
\* what fetch i leaves in a fresh BufPair
Fetched(i) ==
    resolveSingleFetchDirect(ctx, fetch.Fetches[i], preparedInputs[i], getFetchBuf)

\* C15: once all inputs are prepared no two workers are given the same
\* BufPair, and when the primary thread has passed wg.Wait() every child fetch
\* has been resolved exactly once, into the BufPair stored under its own
\* BufferId, whether or not a sibling failed, and every worker has finished.
C15_EveryFetchResolvedOnce ==
    /\ \A i, j \in 1..Len(worker) : i # j => worker[i].buf # worker[j].buf
    /\ (pc = "done" /\ err = nil) =>
          \A i \in 1..Len(fetch.Fetches) :
              /\ Cardinality(LoadsFor(i)) = 1
              /\ \A n \in LoadsFor(i) : loads[n].buf = fetch.Fetches[i].BufferId
              /\ set[fetch.Fetches[i].BufferId] = Fetched(i).buf
              /\ worker[i].pc = "done"

\* C15 witness: the primary thread has passed wg.Wait() after one fetch of the
\* batch failed and a sibling wrote its data.
C15_Witness ==
    /\ pc = "done" /\ err = nil
    /\ \E i, j \in 1..Len(fetch.Fetches) :
          /\ Fetched(i).err # nil
          /\ Fetched(j).err = nil /\ set[fetch.Fetches[j].BufferId].Data = UpstreamObject
    /\ \A i \in 1..Len(worker) : worker[i].pc = "done"

\* C16: ApplyTransformations applies every registered action once, sorted by
\* depth descending and then by order ascending, whatever the order of
\* registration: of two actions the deeper one is applied first, each
\* application working on the document the one before it left.
C16_DeeperFirst == pc = "applied" =>
    /\ {actions[k].registered : k \in 1..Len(actions)} = 1..Len(actions)
    /\ Len(applied) = Len(actions)
    /\ \A k \in 1..Len(applied) :
         /\ applied[k].transformation = actions[k].transformation
         /\ applied[k].after = apply(applied[k].transformation, applied[k].before)
         /\ k > 1 => applied[k].before = applied[k - 1].after
         /\ k = Len(applied) => applied[k].after = document
    /\ \A i, j \in 1..Len(actions) : i < j =>
         \/ actions[i].precedence.Depth > actions[j].precedence.Depth
         \/ /\ actions[i].precedence.Depth = actions[j].precedence.Depth
            /\ actions[i].precedence.Order <= actions[j].precedence.Order
\* a deeper action that was registered after a shallower one ran before it,
\* and of two actions of one depth the one of lower order, registered later,
\* ran first
C16_Witness ==
    /\ pc = "applied"
    /\ \E i, j \in 1..Len(actions) :
         /\ i < j
         /\ actions[i].registered > actions[j].registered
         /\ actions[i].precedence.Depth > actions[j].precedence.Depth
    /\ \E i, j \in 1..Len(actions) :
         /\ i < j
         /\ actions[i].registered > actions[j].registered
         /\ actions[i].precedence.Depth = actions[j].precedence.Depth
         /\ actions[i].precedence.Order < actions[j].precedence.Order

\* C17: actions of the same depth that the order does not separate are
\* applied in the order of their registration.
C17_RegistrationOrder == pc = "applied" =>
    \A i, j \in 1..Len(actions) :
      (/\ i < j
       /\ actions[i].precedence.Depth = actions[j].precedence.Depth
       /\ actions[i].precedence.Order = actions[j].precedence.Order)
        => actions[i].registered < actions[j].registered

\* the selections of selection set ref of d as the printed document shows
\* them: a field by its name, any other selection by its kind
SelectionNames(d, ref) ==
    [i \in 1..Len(d.SelectionSets[ref].SelectionRefs) |->
       IF d.Selections[d.SelectionSets[ref].SelectionRefs[i]].Kind = SelectionKindField
       THEN d.Fields[d.Selections[d.SelectionSets[ref].SelectionRefs[i]].Ref].Name
       ELSE d.Selections[d.SelectionSets[ref].SelectionRefs[i]].Kind]
IsMovedName(name) == name \notin {literalTYPENAME, SelectionKindInlineFragment}
\* the names of the direct fields other than __typename, in their order
MovedFields(d, ref) == SelectSeq(SelectionNames(d, ref), IsMovedName)
\* the inline fragments that the application e generated
GeneratedFragments(e) == (Len(e.before.InlineFragments) + 1)..Len(e.after.InlineFragments)
SetOf(e) == e.transformation.selectionSet

\* C18: when the selection set holds n >= 1 direct fields other than
\* __typename, the selection set of every generated inline fragment lists
\* those n fields in the order they had in the original set.
C18_MovedFieldsKeepOrder ==
    \A k \in 1..Len(applied) :
      Len(MovedFields(applied[k].before, SetOf(applied[k]))) >= 1 =>
        \A f \in GeneratedFragments(applied[k]) :
          SelectionNames(applied[k].after, applied[k].after.InlineFragments[f].SelectionSet)
            = MovedFields(applied[k].before, SetOf(applied[k]))

\* the selections of selection set ref that the expansion leaves in place
KeptRefs(d, ref) ==
    SelectSeq(d.SelectionSets[ref].SelectionRefs, LAMBDA s : ~isFieldToMove(d, s))
Range(seq) == {seq[i] : i \in 1..Len(seq)}
IsPrefix(s, t) == Len(s) <= Len(t) /\ SubSeq(t, 1, Len(s)) = s
\* the selection refs of the selection set of inline fragment f of d
FragmentRefs(d, f) == d.SelectionSets[d.InlineFragments[f].SelectionSet].SelectionRefs
\* the application e left selection set ref as: kept, the selections it
\* kept in place, then one generated inline fragment per type name
ExpandedSet(e, ref, kept, names) ==
    /\ Len(e.after.SelectionSets[ref].SelectionRefs) = Len(kept) + Len(names)
    /\ IsPrefix(kept, e.after.SelectionSets[ref].SelectionRefs)
    /\ IsPrefix(e.before.Selections, e.after.Selections)
    /\ IsPrefix(e.before.Fields, e.after.Fields)
    /\ IsPrefix(e.before.InlineFragments, e.after.InlineFragments)
    /\ \A s \in 1..Len(e.before.SelectionSets) :
         s # ref => e.after.SelectionSets[s] = e.before.SelectionSets[s]
    /\ Len(e.after.InlineFragments) = Len(e.before.InlineFragments) + Len(names)
    /\ \A i \in 1..Len(names) :
         /\ e.after.Selections[e.after.SelectionSets[ref].SelectionRefs[Len(kept) + i]]
              = Selection(SelectionKindInlineFragment, Len(e.before.InlineFragments) + i)
         /\ InlineFragmentTypeConditionName(e.after, Len(e.before.InlineFragments) + i)
              = names[i]
    /\ MovedFields(e.after, ref) = <<>>
\* every generated fragment holds a copy of its own of each moved field:
\* selections and fields that the document before did not hold and that no
\* other fragment shares
IndependentCopies(e, moved) ==
    /\ \A f \in GeneratedFragments(e) :
         /\ e.after.InlineFragments[f].HasSelections
         /\ e.after.InlineFragments[f].SelectionSet > Len(e.before.SelectionSets)
         /\ Len(FragmentRefs(e.after, f)) = Len(moved)
         /\ Cardinality(Range(FragmentRefs(e.after, f))) = Len(moved)
         /\ Range(SelectionNames(e.after, e.after.InlineFragments[f].SelectionSet))
              = Range(moved)
         /\ \A s \in Range(FragmentRefs(e.after, f)) :
              /\ s > Len(e.before.Selections)
              /\ e.after.Selections[s].Kind = SelectionKindField
              /\ e.after.Selections[s].Ref > Len(e.before.Fields)
    /\ \A f, g \in GeneratedFragments(e) : f # g =>
         /\ e.after.InlineFragments[f].SelectionSet # e.after.InlineFragments[g].SelectionSet
         /\ Range(FragmentRefs(e.after, f)) \cap Range(FragmentRefs(e.after, g)) = {}
         /\ \A s \in Range(FragmentRefs(e.after, f)), t \in Range(FragmentRefs(e.after, g)) :
              e.after.Selections[s].Ref # e.after.Selections[t].Ref

\* C19: after ExpandInterfaceSelectionSet(set, names) on a set with a direct
\* field other than __typename, the set holds its other selections in their
\* order, then one new inline fragment per name, in the order of the names,
\* with the name as type condition and a copy of its own of the moved
\* fields, and no direct field other than __typename.
C19_ExpandedSet ==
    \A k \in 1..Len(applied) :
      Len(MovedFields(applied[k].before, SetOf(applied[k]))) >= 1 =>
        /\ ExpandedSet(applied[k], SetOf(applied[k]),
                       KeptRefs(applied[k].before, SetOf(applied[k])),
                       applied[k].transformation.concreteTypeNames)
        /\ IndependentCopies(applied[k], MovedFields(applied[k].before, SetOf(applied[k])))
\* a set with a __typename field, an inline fragment and two fields or more
\* was expanded for two type names
C19_Witness ==
    \E k \in 1..Len(applied) :
      /\ Len(MovedFields(applied[k].before, SetOf(applied[k]))) >= 2
      /\ {literalTYPENAME, SelectionKindInlineFragment}
           \subseteq Range(SelectionNames(applied[k].before, SetOf(applied[k])))
      /\ Len(applied[k].transformation.concreteTypeNames) = 2
      /\ Len(applied[k].after.SelectionSets[SetOf(applied[k])].SelectionRefs) = 4

\* selection set ref as the printed document shows it, the selection sets
\* of its inline fragments included
RECURSIVE PrintedSelections(_, _)
PrintedSelections(d, ref) ==
    [i \in 1..Len(d.SelectionSets[ref].SelectionRefs) |->
       IF d.Selections[d.SelectionSets[ref].SelectionRefs[i]].Kind = SelectionKindInlineFragment
       THEN <<InlineFragmentTypeConditionName(
                  d, d.Selections[d.SelectionSets[ref].SelectionRefs[i]].Ref),
              PrintedSelections(
                  d, d.InlineFragments[d.Selections[d.SelectionSets[ref].SelectionRefs[i]].Ref]
                       .SelectionSet)>>
       ELSE <<d.Fields[d.Selections[d.SelectionSets[ref].SelectionRefs[i]].Ref].Name>>]

\* C20: on a set with no direct field other than __typename the expansion
\* leaves the selections of the set as they are, so a second application
\* with the same type names leaves the set as the first one left it.
C20_Idempotent ==
    \A k \in 1..Len(applied) :
      /\ MovedFields(applied[k].before, SetOf(applied[k])) = <<>> =>
           /\ applied[k].after.SelectionSets[SetOf(applied[k])]
                = applied[k].before.SelectionSets[SetOf(applied[k])]
           /\ PrintedSelections(applied[k].after, SetOf(applied[k]))
                = PrintedSelections(applied[k].before, SetOf(applied[k]))
      /\ (k > 1 /\ applied[k].transformation = applied[k - 1].transformation) =>
           /\ applied[k].after.SelectionSets[SetOf(applied[k])]
                = applied[k].before.SelectionSets[SetOf(applied[k])]
           /\ PrintedSelections(applied[k].after, SetOf(applied[k]))
                = PrintedSelections(applied[k - 1].after, SetOf(applied[k]))
\* a set that the first application expanded met the same application again
C20_Witness ==
    \E k \in 2..Len(applied) :
      /\ applied[k].transformation = applied[k - 1].transformation
      /\ Len(MovedFields(applied[k - 1].before, SetOf(applied[k]))) >= 1
      /\ applied[k - 1].after # applied[k - 1].before
      /\ applied[k].before = applied[k - 1].after

IsExpandInterfaceInlineFragment(e) ==
    DOMAIN e.transformation = {"inlineFragment", "parentSelectionSet", "concreteTypeNames"}
IsPromoteUnionInlineFragments(e) ==
    DOMAIN e.transformation = {"inlineFragment", "parentSelectionSet"}
ParentRefs(d, e) == d.SelectionSets[e.transformation.parentSelectionSet].SelectionRefs
\* the position of the fragment in its parent before the application e
FragmentIndex(e) ==
    CHOOSE i \in 1..Len(ParentRefs(e.before, e)) :
      e.before.Selections[ParentRefs(e.before, e)[i]]
        = Selection(SelectionKindInlineFragment, e.transformation.inlineFragment)
\* the selections that selection set ref of d holds, those of the selection
\* sets of its inline fragments included
RECURSIVE ReachableSelections(_, _)
ReachableSelections(d, ref) ==
    Range(d.SelectionSets[ref].SelectionRefs)
      \cup UNION {ReachableSelections(d, d.InlineFragments[d.Selections[s].Ref].SelectionSet) :
                    s \in {t \in Range(d.SelectionSets[ref].SelectionRefs) :
                             d.Selections[t].Kind = SelectionKindInlineFragment}}
\* the application e left all that the document held in place, but for the
\* selections of selection set ref
OnlySetChanged(e, ref) ==
    /\ IsPrefix(e.before.Selections, e.after.Selections)
    /\ IsPrefix(e.before.Fields, e.after.Fields)
    /\ IsPrefix(e.before.InlineFragments, e.after.InlineFragments)
    /\ IsPrefix(e.before.Types, e.after.Types)
    /\ \A s \in 1..Len(e.before.SelectionSets) :
         s # ref => e.after.SelectionSets[s] = e.before.SelectionSets[s]
\* the fragment g of the document after e is a deep copy of the fragment f
\* of the document before, on the type name
DeepCopyOn(e, g, f, name) ==
    /\ g > Len(e.before.InlineFragments)
    /\ InlineFragmentTypeConditionName(e.after, g) = name
    /\ e.after.InlineFragments[g].HasSelections = e.before.InlineFragments[f].HasSelections
    /\ e.after.InlineFragments[g].SelectionSet > Len(e.before.SelectionSets)
    /\ PrintedSelections(e.after, e.after.InlineFragments[g].SelectionSet)
         = PrintedSelections(e.before, e.before.InlineFragments[f].SelectionSet)
    /\ \A s \in ReachableSelections(e.after, e.after.InlineFragments[g].SelectionSet) :
         /\ s > Len(e.before.Selections)
         /\ e.after.Selections[s].Kind = SelectionKindField
              => e.after.Selections[s].Ref > Len(e.before.Fields)
         /\ e.after.Selections[s].Kind = SelectionKindInlineFragment
              => e.after.Selections[s].Ref > Len(e.before.InlineFragments)
\* the application e replaced the selection at index of the parent by n
\* selections
ReplacedAt(e, index, n) ==
    /\ Len(ParentRefs(e.after, e)) = Len(ParentRefs(e.before, e)) - 1 + n
    /\ SubSeq(ParentRefs(e.after, e), 1, index - 1)
         = SubSeq(ParentRefs(e.before, e), 1, index - 1)
    /\ SubSeq(ParentRefs(e.after, e), index + n, Len(ParentRefs(e.after, e)))
         = SubSeq(ParentRefs(e.before, e), index + 1, Len(ParentRefs(e.before, e)))

\* C21: ExpandInterfaceInlineFragment(f, parent, names) replaces the
\* selection of f in parent, at its position, by one inline fragment per
\* name, in the order of the names, each a deep copy of f on that name; the
\* other selections of parent keep their order and its length becomes the
\* old length - 1 + len(names).
C21_FragmentExpanded ==
    \A k \in 1..Len(applied) : IsExpandInterfaceInlineFragment(applied[k]) =>
      /\ ReplacedAt(applied[k], FragmentIndex(applied[k]),
                    Len(applied[k].transformation.concreteTypeNames))
      /\ OnlySetChanged(applied[k], applied[k].transformation.parentSelectionSet)
      /\ \A i \in 1..Len(applied[k].transformation.concreteTypeNames) :
           /\ applied[k].after.Selections[
                  ParentRefs(applied[k].after, applied[k])[FragmentIndex(applied[k]) - 1 + i]].Kind
                = SelectionKindInlineFragment
           /\ DeepCopyOn(applied[k],
                         applied[k].after.Selections[
                             ParentRefs(applied[k].after, applied[k])[
                                 FragmentIndex(applied[k]) - 1 + i]].Ref,
                         applied[k].transformation.inlineFragment,
                         applied[k].transformation.concreteTypeNames[i])
      /\ \A i, j \in 1..Len(applied[k].transformation.concreteTypeNames) : i # j =>
           ParentRefs(applied[k].after, applied[k])[FragmentIndex(applied[k]) - 1 + i]
             # ParentRefs(applied[k].after, applied[k])[FragmentIndex(applied[k]) - 1 + j]
\* a fragment that holds a fragment, with selections before and after it in
\* its parent, was expanded for two type names
C21_Witness ==
    \E k \in 1..Len(applied) :
      /\ IsExpandInterfaceInlineFragment(applied[k])
      /\ Len(applied[k].transformation.concreteTypeNames) = 2
      /\ FragmentIndex(applied[k]) = 2
      /\ Len(ParentRefs(applied[k].before, applied[k])) = 3
      /\ Len(ParentRefs(applied[k].after, applied[k])) = 4
      /\ InlineFragmentTypeConditionName(applied[k].before,
                                         applied[k].transformation.inlineFragment) = "Pet"

\* C22: PromoteUnionInlineFragments(f, parent) replaces the selection of f
\* in parent, at its position, by the selections of the selection set of f
\* in their order; the selections before and after it keep their order and
\* the selection set of f is left as it was.
C22_FragmentPromoted ==
    \A k \in 1..Len(applied) : IsPromoteUnionInlineFragments(applied[k]) =>
      /\ ReplacedAt(applied[k], FragmentIndex(applied[k]),
                    Len(FragmentRefs(applied[k].before,
                                     applied[k].transformation.inlineFragment)))
      /\ SubSeq(ParentRefs(applied[k].after, applied[k]), FragmentIndex(applied[k]),
                FragmentIndex(applied[k]) - 1
                  + Len(FragmentRefs(applied[k].before,
                                     applied[k].transformation.inlineFragment)))
           = FragmentRefs(applied[k].before, applied[k].transformation.inlineFragment)
      /\ OnlySetChanged(applied[k], applied[k].transformation.parentSelectionSet)
      /\ Len(applied[k].after.Selections) = Len(applied[k].before.Selections)
      /\ FragmentRefs(applied[k].after, applied[k].transformation.inlineFragment)
           = FragmentRefs(applied[k].before, applied[k].transformation.inlineFragment)
\* a fragment of two selections, with selections before and after it in its
\* parent, was promoted
C22_Witness ==
    \E k \in 1..Len(applied) :
      /\ IsPromoteUnionInlineFragments(applied[k])
      /\ Len(FragmentRefs(applied[k].before, applied[k].transformation.inlineFragment)) = 2
      /\ FragmentIndex(applied[k]) = 2
      /\ Len(ParentRefs(applied[k].before, applied[k])) = 3
      /\ Len(ParentRefs(applied[k].after, applied[k])) = 4

IsDeleteInvalidInlineFragments(e) ==
    DOMAIN e.transformation = {"selectionSet", "enclosingTypeDefinition"}
\* the selection s of d is an inline fragment on a type that the schema
\* defines and that cannot occur inside the type enclosing
NotAllowedIn(d, s, enclosing) ==
    /\ d.Selections[s].Kind = SelectionKindInlineFragment
    /\ \E type \in ObjectTypeDefinitions \cup InterfaceTypeDefinitions :
         /\ d.InlineFragments[d.Selections[s].Ref].TypeCondition.Type # 0
         /\ d.Types[d.InlineFragments[d.Selections[s].Ref].TypeCondition.Type] = type
         /\ type # enclosing
         /\ ~(type = "Pet" /\ enclosing \in {"Dog", "Cat"})
         /\ ~(enclosing = "Pet" /\ type \in {"Dog", "Cat"})
AllowedRefs(d, ref, enclosing) ==
    SelectSeq(d.SelectionSets[ref].SelectionRefs, LAMBDA s : ~NotAllowedIn(d, s, enclosing))

C24_EmptyFragmentsDeleted ==
    \A k \in 1..Len(applied) : IsDeleteInvalidInlineFragments(applied[k]) =>
      \A f \in FragmentsOf(applied[k].after, applied[k].transformation.selectionSet) :
        FragmentRefs(applied[k].after, f) # <<>>

\* the callers that found a record in the table and have not released it
Dependents ==
    {c \in Callers : caller[c].pc \in {"dependentUnlock", "waitLoad", "copy", "release"}}
\* the bytes that the Load of the leader l has written so far
LoadWritten(l) ==
    IF LoadsOf(l) = {} THEN getBufPair
    ELSE loadInto(getBufPair, loads[CHOOSE n \in LoadsOf(l) : TRUE].result)

\* C25: as long as a dependent that found a record in the table has not
\* released it, the record is not reset, not in the pool and not handed out
\* for another fetch: it is still the record of the leader the dependent
\* found, and the dependent is counted in its waitFree.
C25_NoRecycleWhileRead ==
    \A c \in Callers : c \in Dependents =>
      /\ caller[c].inflight \notin inflightFetchPool
      /\ caller[c].inflight \notin Available
      /\ inflight[caller[c].inflight].out
      /\ inflight[caller[c].inflight].waitFree >= 1
      /\ inflight[caller[c].inflight].leader \in caller[c].saw
      /\ caller[inflight[caller[c].inflight].leader].inflight = caller[c].inflight
      /\ caller[inflight[caller[c].inflight].leader].fetchID = caller[c].fetchID
\* a record was handed out again, to the leader of a later fetch, after a
\* dependent of its earlier fetch had released it
C25_Witness ==
    \E c \in Callers :
      /\ caller[c].pc = "done"
      /\ caller[c].saw # {}
      /\ inflight[caller[c].inflight].leader \notin caller[c].saw
      /\ inflight[caller[c].inflight].out

\* C26: the shared BufPair of a record holds nothing but what the Load of
\* its leader wrote; a dependent reads it only after waitLoad has fired, and
\* from then until the last dependent has released the record it holds the
\* bytes of that Load.
C26_SharedBufPairWrites ==
    \A c \in Callers : c \in Dependents =>
      /\ caller[c].pc \in {"copy", "release"} => inflight[caller[c].inflight].waitLoad = 0
      /\ inflight[caller[c].inflight].bufPair
           = LoadWritten(inflight[caller[c].inflight].leader)
      /\ inflight[caller[c].inflight].waitLoad = 0 =>
           \E n \in LoadsOf(inflight[caller[c].inflight].leader) : loads[n].returned
\* a dependent is about to copy the data of a record that was used before,
\* after the leader has returned
C26_Witness ==
    \E c \in Callers :
      /\ caller[c].pc = "copy"
      /\ HasData(inflight[caller[c].inflight].bufPair)
      /\ caller[inflight[caller[c].inflight].leader].pc = "done"
      /\ \E d \in Callers :
           /\ d # inflight[caller[c].inflight].leader
           /\ caller[d].pc = "done"
           /\ caller[d].inflight = caller[c].inflight
           /\ caller[d].saw = {}
           /\ ~caller[d].DisallowSingleFlight

\* the Object call emitted no field: its fetch succeeded and every FieldSet
\* was skipped or holds no field
NoFieldEmitted(e) == Completed(e) /\ ExpectedFields(e) = <<>>
\* a FieldSet of the call was skipped because of its type condition
SomeTypeNameSkip(e) == \E i \in 1..Len(e.node.FieldSets) : ~TypeNameMatches(e, i)

\* C27: an Object call that emits no field returns TypeNameSkipped when a
\* FieldSet was skipped because of its type condition, whether the object
\* is nullable or not; when none was skipped it emits null if the object is
\* nullable and returns NonNullableFieldValueIsNull if it is not.
C27_TypeNameSkippedSignalled ==
    pc = "done" =>
        \A k \in 1..Len(log) :
            NoFieldEmitted(log[k]) =>
                IF SomeTypeNameSkip(log[k])
                THEN log[k].err = errTypeNameSkipped /\ Emitted(log[k]) = <<>>
                ELSE IF log[k].Nullable
                     THEN log[k].err = nil /\ Emitted(log[k]) = <<null>>
                     ELSE log[k].err = errNonNullableFieldValueIsNull

\* source item i was skipped: its resolution returned TypeNameSkipped
ItemSkipped(i) == ItemResolution(i).err = errTypeNameSkipped
\* array resolution r returned no error and left [, the resolutions of the
\* items that were not skipped separated by single commas, and ]
SkippedItemsDropped(r) ==
    /\ r.err = nil
    /\ r.buf.Data = <<lBrack>> \o Join(NonSkipped, 1) \o <<rBrack>>

\* C28: when some item of an array returns TypeNameSkipped and every other
\* item resolves, parallel resolution and serial resolution both leave [, the
\* bytes of the items that were not skipped joined by single commas, and ]:
\* the skipped item contributes no bytes and no separator.
C28_SkippedItemDropped ==
    (/\ pc = "done"
     /\ \E i \in 1..Len(arrayItems) : ItemSkipped(i)
     /\ \A i \in 1..Len(arrayItems) : ItemSkipped(i) \/ ItemResolution(i).err = nil)
        => /\ SkippedItemsDropped([err |-> err, buf |-> arrayBuf])
           /\ SkippedItemsDropped(Serial)

\* the chunks that are JSON punctuation
Structural == {lBrace, rBrace, lBrack, rBrack, comma, colon, quote}
\* A recogniser of JSON text over byte chunks.  JsonValueEnd(s, i) is the
\* index after the JSON value that starts at s[i], 0 when none starts there.
RECURSIVE JsonValueEnd(_, _)
RECURSIVE JsonMembersEnd(_, _)
RECURSIVE JsonElementsEnd(_, _)
\* after a member or element that ended before index j: a comma and another
\* one, or the closing chunk
JsonNextEnd(s, j, close, isObject) ==
    IF j = 0 \/ j > Len(s) THEN 0
    ELSE IF s[j] = close THEN j + 1
    ELSE IF s[j] = comma
    THEN IF isObject THEN JsonMembersEnd(s, j + 1) ELSE JsonElementsEnd(s, j + 1)
    ELSE 0
\* "key":value at s[i], then the rest of the object
JsonMembersEnd(s, i) ==
    IF i + 4 > Len(s) THEN 0
    ELSE IF s[i] = quote /\ s[i + 1] \notin Structural /\ s[i + 2] = quote /\ s[i + 3] = colon
    THEN JsonNextEnd(s, JsonValueEnd(s, i + 4), rBrace, TRUE)
    ELSE 0
\* a value at s[i], then the rest of the array
JsonElementsEnd(s, i) == JsonNextEnd(s, JsonValueEnd(s, i), rBrack, FALSE)
JsonValueEnd(s, i) ==
    IF i > Len(s) THEN 0
    ELSE IF s[i] = quote
    THEN IF i + 2 <= Len(s) /\ s[i + 1] \notin Structural /\ s[i + 2] = quote
         THEN i + 3 ELSE 0
    ELSE IF s[i] = lBrace
    THEN IF i + 1 <= Len(s) /\ s[i + 1] = rBrace THEN i + 2 ELSE JsonMembersEnd(s, i + 1)
    ELSE IF s[i] = lBrack
    THEN IF i + 1 <= Len(s) /\ s[i + 1] = rBrack THEN i + 2 ELSE JsonElementsEnd(s, i + 1)
    ELSE IF s[i] \in Structural THEN 0
    ELSE i + 1
\* s is exactly one syntactically complete JSON value
IsJsonValue(s) == JsonValueEnd(s, 1) = Len(s) + 1

\* C29: every Object or Array call that returned no error wrote nothing or
\* exactly one syntactically complete JSON value to its data buffer, and the
\* data of a response written without error is complete JSON.
C29_CompleteJson ==
    pc = "done" =>
        /\ \A k \in 1..Len(log) :
               log[k].err = nil => Emitted(log[k]) = <<>> \/ IsJsonValue(Emitted(log[k]))
        /\ (err = nil /\ HasData(Root.buf)) => IsJsonValue(Root.buf.Data)

\* ------------------------------------------------ fetches below the root
\* Requests whose fetch belongs to an object below the root: the object of a
\* root field, or the item of an array.  The object's field reads the fetched
\* buffer (HasBuffer) or the data the object was called with.
ErrorSources ==
    {DataSource("s0", UpstreamObject, <<ErrorObject("s0")>>, nil),
     DataSource("s0", JObj(<<KV("name", JNull)>>), <<ErrorObject("s0")>>, nil),
     DataSource("s0", UpstreamObject, <<>>, nil)}
FetchObjects(at) ==
    {Object(n, at, <<FieldSet(<<>>, 0, hasBuffer, <<Field("name", l)>>)>>,
            FetchSingle(SingleFetch(0, ds, FALSE, Query))) :
       n \in OptBool, hasBuffer \in BOOLEAN, l \in Leaves, ds \in ErrorSources}
NestedFields ==
    {Field("inner", o) : o \in FetchObjects(<<"inner">>)}
    \cup {Field("items", Array(n, <<"items">>, a, item)) :
            n \in OptBool, a \in BOOLEAN, item \in FetchObjects(<<>>)}
NestedPlans ==
    {Object(n, <<>>, <<FieldSet(<<>>, 0, FALSE, <<f>>)>>, FetchNone) :
       n \in OptBool, f \in NestedFields}

InitNested ==
    /\ response \in NestedPlans
    /\ upstream \in ValueData(response)
    /\ ctx \in {Context(NoData, s, <<0, 1>>) : s \in Scheds(response)}
    /\ pc = "start"
    /\ writer = <<>>
    /\ err = nil
    /\ log = <<>>
    /\ ArrayIdle
    /\ PoolIdle
    /\ FlightIdle
    /\ FetchIdle
    /\ ErrorIdle
    /\ TransformIdle

\* ResolveGraphQLResponse on a plan whose fetch is below the root
ResolveNested ==
    /\ pc = "start"
    /\ Returned(ResolveGraphQLResponse(ctx, response, upstream, writer))
    /\ pc' = "done"
    /\ UNCHANGED <<response, upstream, ctx>>
    /\ UNCHANGED arrayVars
    /\ UNCHANGED <<flightVars, fetchVars, errorVars, transformVars>>
    /\ UNCHANGED poolVars

NextNested == ResolveNested

SpecNested == InitNested /\ [][NextNested]_vars

\* the error fragments that the Loads of the fetch of call e wrote into the
\* errors buffers of its resultSet
ErrorFragments(e) ==
    IF e.kind = "Object" /\ Prepared(e)
    THEN Flatten([i \in 1..Len(e.node.Fetch.Fetches) |->
                    e.node.Fetch.Fetches[i].DataSource.errors], 1)
    ELSE <<>>
\* the error fragments written during the request, one per write
WrittenFragments == Flatten([k \in 1..Len(log) |-> ErrorFragments(log[k])], 1)
\* how often chunk x occurs in s
Occurrences(s, x) == Cardinality({i \in 1..Len(s) : s[i] = x})

\* C30: a response written without error holds every error fragment that a
\* data source wrote into an errors buffer during the request, as often as it
\* was written.
C30_NoErrorDropped ==
    (pc = "done" /\ err = nil) =>
        \A i \in 1..Len(WrittenFragments) :
            Occurrences(writer, WrittenFragments[i])
                >= Occurrences(WrittenFragments, WrittenFragments[i])

\* what Render returns for the input of fetch i of the batch
RenderErr(i) == Render(fetch.Fetches[i].InputTemplate, 1, ctx, upstream, <<>>).err
\* the fetches of the batch whose input cannot be rendered
RenderFails == {i \in 1..Len(fetch.Fetches) : RenderErr(i) # nil}
\* the first of them
FirstRenderFailure == CHOOSE i \in RenderFails : \A j \in RenderFails : i <= j
\* an object that owns fetch i of the batch as a SingleFetch
OwnerOf(i) ==
    Object(FALSE, <<>>, <<FieldSet(<<>>, fetch.Fetches[i].BufferId, TRUE,
                                   <<Field("name", String(<<"name">>, TRUE))>>)>>,
           FetchSingle(fetch.Fetches[i]))
\* resolveFetch on fetch i as a SingleFetch returned the render error and left
\* the BufPair of the fetch as it was handed out: Load did not run
SingleFailsUnloaded(i, r) ==
    /\ r.err = RenderErr(i)
    /\ r.set[fetch.Fetches[i].BufferId] = getFetchBuf

\* C31: when the input of a fetch cannot be rendered, resolveFetch on it as a
\* SingleFetch returns the render error without a Load and the object that
\* owns it returns that error; resolveFetch on the ParallelFetch returns the
\* first render error, and at no time is a worker spawned or a Load invoked.
C31_RenderFailureIsSynchronous ==
    /\ \A i \in RenderFails :
          /\ SingleFailsUnloaded(i, resolveFetch(ctx, FetchSingle(fetch.Fetches[i]),
                                                 upstream, <<>>))
          /\ resolveObject(ctx, OwnerOf(i), upstream, getBufPair).err = RenderErr(i)
    /\ RenderFails # {} =>
          /\ loads = <<>>
          /\ worker = <<>>
          /\ wg = 0
          /\ pc = "done" => err = RenderErr(FirstRenderFailure)

\* C31 witness: the second input of a batch failed to render, after the first
\* was prepared, and resolveFetch has returned.
C31_Witness ==
    /\ pc = "done"
    /\ 1 \notin RenderFails
    /\ 2 \in RenderFails
    /\ err # nil
    /\ Len(preparedInputs) = 1

\* caller c takes the direct path of lines 609-610
IsDirect(c) == ~EnableSingleFlightLoader \/ caller[c].DisallowSingleFlight
\* the singleflight state: the mutex, the table, the pool and the records
singleFlightState == <<inflightFetchMu, inflightFetches, inflightFetchPool, inflight, freeing>>
\* the direct call of c: one Load once it began, Load's bytes in the caller's
\* own BufPair and Load's error returned once it ended, no record taken
DirectCall(c) ==
    /\ Cardinality(LoadsOf(c)) = (IF caller[c].pc = "idle" THEN 0 ELSE 1)
    /\ \A n \in LoadsOf(c) : loads[n].direct
    /\ caller[c].inflight = 0
    /\ caller[c].pc = "done" =>
          \A n \in LoadsOf(c) :
              /\ loads[n].returned
              /\ caller[c].buf = BufPair(loads[n].result.data, loads[n].result.errors)
              /\ caller[c].ret = loads[n].result.err

\* C32: a call of resolveSingleFetch with the loader off, or for a fetch that
\* disallows it, invokes Load exactly once, into the caller's own BufPair,
\* and returns Load's error; identical concurrent calls each invoke their own
\* Load; no step of such a call reads or changes the mutex, the inflight
\* table, the pool or a record.
C32_DirectCall ==
    /\ [](\A c \in Callers : IsDirect(c) => DirectCall(c))
    /\ [][\A c \in Callers :
            (IsDirect(c) /\ caller'[c] # caller[c]) => UNCHANGED singleFlightState]_vars

\* C32 witness: with the loader on, the caller that disallows it and a leader
\* of the same fetch both ended, each with a Load of its own; or with the
\* loader off all callers of the same fetch ended with as many Loads.
C32_Witness ==
    /\ \A c \in Callers : caller[c].pc = "done"
    /\ \/ /\ EnableSingleFlightLoader
          /\ caller[1].DisallowSingleFlight
          /\ \E n \in 1..Len(loads) :
                ~loads[n].direct /\ loads[n].fetchID = fetchID("a", "b")
       \/ ~EnableSingleFlightLoader /\ Len(loads) = NCallers

\* ------------------------------------------- the loader under fair scheduling
\* The Go scheduler runs every goroutine that can take a step, and every Load
\* returns: some enabled step of resolveSingleFetch, of Load or of the
\* goroutine of lines 665-668 is eventually taken.
SpecFlightFair == SpecFlight /\ WF_vars(NextFlight)

\* no key is in the inflight table and the mutex is free
TableEmpty == inflightFetchMu = 0 /\ \A id \in FetchIDs : inflightFetches[id] = 0
\* every record that was handed out is back in the pool, reset
AllPooled ==
    /\ freeing = {}
    /\ \A r \in Records : r \in inflightFetchPool \/ r \in Fresh
    /\ \A r \in inflightFetchPool :
          /\ inflight[r].bufPair = getBufPair
          /\ inflight[r].err = nil
          /\ inflight[r].waitLoad = 0
          /\ inflight[r].waitFree = 0

\* C33: under fair scheduling with every Load returning, every caller of
\* resolveSingleFetch eventually returns; once all have returned the inflight
\* table is empty, and eventually every record is back in its pool.
C33_CallersReturn ==
    /\ <>AllReturned
    /\ [](AllReturned => TableEmpty)
    /\ <>[]AllPooled

\* C33 witness: all callers returned, a dependent among them, and the record
\* they shared is back in the pool.
C33_Witness ==
    /\ AllReturned
    /\ AllPooled
    /\ inflightFetchPool # {}
    /\ \E c \in Callers : caller[c].saw # {}

\* ------------------------------------- the operations that spawn goroutines
\* resolveFetch on a ParallelFetch, resolveArrayAsynchronous, and
\* resolveSingleFetch for callers of one fetch with the loader on: one of the
\* three per behaviour, told apart by the state the operation starts from.
InitShared == InitFlight /\ EnableSingleFlightLoader /\ caller = SameFetch
InitOperations == InitFetch \/ InitArray \/ InitShared
StepFetch == fetch # FetchNone /\ NextFetch
StepArray == fetch = FetchNone /\ caller = <<>> /\ NextArray
StepShared == caller # <<>> /\ NextFlight
NextOperations == StepFetch \/ StepArray \/ StepShared
SpecOperations == InitOperations /\ [][NextOperations]_vars

\* worker i has called wg.Done(): it has finished
WorkerFinished(i) == worker[i].pc = (IF fetch = FetchNone THEN "exited" ELSE "done")
\* the BufPairs of an operation and the bookkeeping of its workers
workerState == <<set, bufSlice, arrayBuf, worker, wg, errCh>>
\* resolveFetch or resolveArrayAsynchronous has returned
OperationReturned == caller = <<>> /\ pc = "done"
\* every caller of resolveSingleFetch has returned
RequestsReturned == caller # <<>> /\ AllReturned

\* C34: when resolveFetch on a ParallelFetch or resolveArrayAsynchronous has
\* returned, every worker it spawned has finished and no step changes a
\* BufPair of the operation afterwards; after every caller of
\* resolveSingleFetch has returned, the only steps left are those of the
\* goroutine that puts an inflight record back into its pool.
C34_NoWorkerOutlives ==
    /\ [](OperationReturned => (wg = 0 /\ \A i \in 1..Len(worker) : WorkerFinished(i)))
    /\ [][OperationReturned => UNCHANGED workerState]_vars
    /\ [][RequestsReturned => (\E rec \in Records : Free(rec))]_vars

\* C34 witness: an array resolved in parallel has returned after two workers
\* finished, or all callers of one fetch have returned while a record still
\* waits to be put back.
C34_Witness ==
    \/ OperationReturned /\ fetch = FetchNone /\ Len(worker) = 2
                         /\ \A i \in 1..Len(worker) : WorkerFinished(i)
    \/ RequestsReturned /\ freeing # {}

\* --------------------------------------------- the writers of errors buffers
\* A request whose fetches write error objects (a fetch at the root, a fetch
\* below the root or in the items of an array), the callers of
\* resolveSingleFetch, or one call of WriteErr: one of the three per
\* behaviour.
InitFetchPlan ==
    /\ response \in FetchPlans
    /\ upstream \in ValueData(response)
    /\ ctx \in {Context(NoData, Identity(MaxItems), m) : m \in MapOrders(response)}
    /\ pc = "start"
    /\ writer = <<>>
    /\ err = nil
    /\ log = <<>>
    /\ ArrayIdle
    /\ PoolIdle
    /\ FlightIdle
    /\ FetchIdle
    /\ ErrorIdle
    /\ TransformIdle
InitWriters == InitFetchPlan \/ InitNested \/ InitFlight \/ InitError
StepRequest == caller = <<>> /\ ResolveNested
StepLoader == caller # <<>> /\ NextFlight
StepWriteErr == caller = <<>> /\ NextError
NextWriters == StepRequest \/ StepLoader \/ StepWriteErr
SpecWriters == InitWriters /\ [][NextWriters]_vars

\* the error objects the data sources append, each in one chunk
SourceErrorObjects == {ErrorObject(m) : m \in {"e", "s0", "s1"}}
\* s is empty, or complete error objects separated by single commas with no
\* comma before the first or after the last and no brackets around them
IsErrorList(s) ==
    \/ s = <<>>
    \/ /\ s[1] = lBrace \/ s[1] \in SourceErrorObjects
       /\ IsJsonValue(<<lBrack>> \o s \o <<rBrack>>)
\* the errors buffers of the state: the BufPair WriteErr wrote to, the
\* callers' BufPairs, the shared BufPairs of the inflight records, and the
\* root BufPair of a request that returned
ErrorsBuffers ==
    {b.Errors}
    \cup {caller[c].buf.Errors : c \in DOMAIN caller}
    \cup {inflight[r].bufPair.Errors : r \in DOMAIN inflight}
    \cup (IF pc = "done" THEN {Root.buf.Errors} ELSE {})

\* C35: every errors buffer is empty or a list of complete error objects
\* separated by single commas, without a leading, trailing or doubled comma
\* and without brackets around it.
C35_ErrorsWellFormed == \A s \in ErrorsBuffers : IsErrorList(s)

\* C35 witness: a buffer holds two error objects: a request merged the errors
\* of two fetches, or WriteErr appended to a buffer that held an error.
C35_Witness ==
    \E s \in ErrorsBuffers :
        /\ IsErrorList(s)
        /\ \E i \in 1..Len(s) : s[i] = comma /\ i > 1 /\ s[i - 1] \in SourceErrorObjects

\* ------------------------------------------------------ the pool of BufPairs
\* Requests resolved one after the other on one Resolver, one acquisition,
\* call or return at a time.  bufPairs holds every BufPair by identity,
\* bufPairPool the identities Resolver.bufPairPool holds, stack the calls in
\* progress with the pairs each of them holds.
MaxRequests == 2

\* the pool, its pairs and the record of the writes, as one value
Pool == [pairs |-> bufPairs, pool |-> bufPairPool, written |-> written]
PoolBecomes(p) ==
    /\ bufPairs' = p.pairs
    /\ bufPairPool' = p.pool
    /\ written' = p.written
\* bufPairPool.New, lines 126-134
newBufPair == BufPair(<<>>, <<>>)
\* bufPairPool.Get: the pairs it can return, one of the pool or a New one
Gettable(p) == p.pool \cup {Len(p.pairs) + 1}
\* r.getBufPair(), lines 1057-1059, having returned pair id
gotBufPair(p, id) ==
    IF id \in p.pool
    THEN [p EXCEPT !.pool = @ \ {id}, !.written = @ \ {id}]
    ELSE [p EXCEPT !.pairs = Append(@, newBufPair)]
\* BufPair.Reset, lines 965-968
bufPairReset(pair) == BufPair(<<>>, <<>>)
\* Faulty variant for C36: the pair goes back to the pool as it is.
freeBufPairAsIs(p, id) == [p EXCEPT !.pool = @ \cup {id}]
\* r.freeBufPair(pair), lines 1051-1055
freeBufPair(p, id) == [p EXCEPT !.pairs[id] = BufPair(<<>>, <<>>), !.pool = @ \cup {id}]
\* r.freeBufPairSlice(slice), lines 1065-1071
RECURSIVE freeBufPairSlice(_, _)
freeBufPairSlice(p, slice) ==
    IF slice = <<>> THEN p
    ELSE freeBufPairSlice(freeBufPair(p, Head(slice)), Tail(slice))
\* r.freeResultSet(set), lines 553-560, buffers being set.buffers
RECURSIVE freeResultSet(_, _)
freeResultSet(p, buffers) ==
    IF buffers = <<>> THEN p
    ELSE freeResultSet([p EXCEPT !.pairs[Head(buffers).pair] = bufPairReset(@),
                                 !.pool = @ \cup {Head(buffers).pair}],
                       Tail(buffers))
\* a call has left pair id holding bytes
wrote(p, id, bytes) ==
    [p EXCEPT !.pairs[id] = bytes,
              !.written = IF bytes # p.pairs[id] THEN @ \cup {id} ELSE @]

\* set.buffers[id] = pair, line 603: buffers lists the map's entries
RECURSIVE bufferStored(_, _, _)
bufferStored(buffers, id, pair) ==
    IF buffers = <<>> THEN <<[BufferId |-> id, pair |-> pair]>>
    ELSE IF Head(buffers).BufferId = id
    THEN <<[BufferId |-> id, pair |-> pair]>> \o Tail(buffers)
    ELSE <<Head(buffers)>> \o bufferStored(Tail(buffers), id, pair)
\* set.buffers[id]
RECURSIVE bufferOf(_, _)
bufferOf(buffers, id) ==
    IF Head(buffers).BufferId = id THEN Head(buffers).pair ELSE bufferOf(Tail(buffers), id)

\* A call in progress: fn the function, node its plan node or fetch, data
\* and buf its arguments, own the pairs a deferred freeBufPair releases,
\* slice its BufPair slice, buffers its resultSet, preparedInput the pair
\* the prepare loop holds, items and i its loop, first, typeNameSkip and err
\* its locals, ret what its callee returned.
Call(fn, node, data, buf) ==
    [fn |-> fn, node |-> node, data |-> data, buf |-> buf, pc |-> "start",
     own |-> <<>>, slice |-> <<>>, buffers |-> <<>>, preparedInput |-> 0,
     items |-> <<>>, i |-> 1, first |-> TRUE, typeNameSkip |-> FALSE, err |-> nil,
     ret |-> nil]
\* resolveNode, lines 293-302 of the node kinds of PoolPlans
resolveNodeCall(node, data, buf) ==
    Call(CASE node.kind = "Object" -> "resolveObject"
           [] node.kind = "Array" -> "resolveArray"
           [] OTHER -> "resolveScalar",
         node, data, buf)
\* the deferred calls of call f at its return
deferred(p, f) ==
    CASE f.fn = "resolveObject" ->
           \* lines 482 and 492, run last in first out
           freeResultSet(IF f.own = <<>> THEN p ELSE freeBufPair(p, f.own[1]), f.buffers)
      [] f.fn = "resolveArrayAsynchronous" -> freeBufPairSlice(p, f.slice)    \* line 366
      [] f.fn = "resolveFetch" /\ f.node.FetchKind = "Parallel" ->
           freeBufPairSlice(p, f.slice)                                       \* line 573
      [] OTHER -> IF f.own = <<>> THEN p ELSE freeBufPair(p, f.own[1])
                  \* lines 256, 332 and 566

\* the innermost call and its callers
top == stack[Len(stack)]
callers == SubSeq(stack, 1, Len(stack) - 1)
\* the stack once the innermost call, left as f, has returned e: a
\* resolveFetch leaves the resultSet it filled to resolveObject
returned(f, e) ==
    [callers EXCEPT ![Len(callers)].ret = e,
                    ![Len(callers)].buffers = IF f.fn = "resolveFetch" THEN f.buffers ELSE @]
\* a step of the request in progress that leaves pool p and stack stk
Stepped(p, stk) ==
    /\ PoolBecomes(p)
    /\ stack' = stk
    /\ UNCHANGED <<treeVars, requests>>
    /\ UNCHANGED <<arrayVars, flightVars, fetchVars, errorVars, transformVars>>
\* the innermost call goes on as f
Continued(p, f) == Stepped(p, Append(callers, f))
\* the innermost call, now f, calls callee
Entered(p, f, callee) == Stepped(p, Append(Append(callers, f), callee))
\* the innermost call, left as f, returns e and runs its deferred calls
Left(p, f, e) == Stepped(deferred(p, f), returned(f, e))

\* lines 253-257 of ResolveGraphQLResponse: the root pair and resolveNode
PoolRequest ==
    /\ stack = <<>>
    /\ requests < MaxRequests
    /\ \E data \in ValueData(response), id \in Gettable(Pool) :
         /\ upstream' = data
         /\ PoolBecomes(gotBufPair(Pool, id))
         /\ stack' = <<[Call("ResolveGraphQLResponse", response, data, id)
                          EXCEPT !.own = <<id>>],
                       resolveNodeCall(response, data, id)>>
    /\ writer' = <<>>
    /\ err' = nil
    /\ UNCHANGED <<response, ctx, pc, log, requests>>
    /\ UNCHANGED <<arrayVars, flightVars, fetchVars, errorVars, transformVars>>

\* lines 258-291, r being what rootResolved makes of the root's return
PoolResponded(r) ==
    /\ writer' = r.writer
    /\ err' = r.err
PoolResponse ==
    /\ stack # <<>>
    /\ top.fn = "ResolveGraphQLResponse"
    /\ PoolResponded(rootResolved(Ret(top.ret, bufPairs[top.buf], <<>>), writer))
    /\ PoolBecomes(deferred(Pool, top))
    /\ stack' = <<>>
    /\ requests' = requests + 1
    /\ UNCHANGED <<response, upstream, ctx, pc, log>>
    /\ UNCHANGED <<arrayVars, flightVars, fetchVars, errorVars, transformVars>>

\* a scalar node has resolved as r
ScalarResolved(r) == Left(wrote(Pool, top.buf, r.buf), top, r.err)
PoolScalar ==
    /\ stack # <<>>
    /\ top.fn = "resolveScalar"
    /\ ScalarResolved(resolveNode(ctx, top.node, top.data, bufPairs[top.buf]))

\* lines 475-484 of resolveObject: the path and the call of resolveFetch
PoolObjectFetch ==
    /\ stack # <<>>
    /\ top.fn = "resolveObject"
    /\ top.pc = "start"
    /\ IF top.node.Fetch = FetchNone
       THEN Continued(Pool, [top EXCEPT !.pc = "fieldBuf"])
       ELSE Entered(Pool, [top EXCEPT !.pc = "fetched"],
                   Call("resolveFetch", top.node.Fetch, top.data, top.buf))

\* lines 487-489: the errors of every buffer merged into objectBuf
RECURSIVE buffersMerged(_, _, _)
bufferMerged(p, buffers, to, m) ==
    buffersMerged(wrote(wrote(p, Head(buffers).pair, m.from), to, m.to), Tail(buffers), to)
buffersMerged(p, buffers, to) ==
    IF buffers = <<>> THEN p
    ELSE bufferMerged(p, buffers, to,
                      MergeBufPairErrors(p.pairs[Head(buffers).pair], p.pairs[to]))
\* lines 484-489: resolveFetch has returned
PoolObjectFetched ==
    /\ stack # <<>>
    /\ top.fn = "resolveObject"
    /\ top.pc = "fetched"
    /\ IF top.ret # nil
       THEN Left(Pool, top, top.ret)
       ELSE Continued(buffersMerged(Pool, top.buffers, top.buf),
                      [top EXCEPT !.pc = "fieldBuf"])

\* lines 491-492: fieldBuf
PoolObjectFieldBuf ==
    /\ stack # <<>>
    /\ top.fn = "resolveObject"
    /\ top.pc = "fieldBuf"
    /\ \E id \in Gettable(Pool) :
         Continued(gotBufPair(Pool, id), [top EXCEPT !.own = <<id>>, !.pc = "fieldSet"])

\* the data Load left in the buffer of BufferID, as JSON
fetchedData(fetches, bufferID) ==
    fetches[CHOOSE i \in 1..Len(fetches) : fetches[i].BufferId = bufferID].DataSource.data
\* lines 497-506: fieldSetData
fieldSetDataOf(f, fieldSet) ==
    IF f.node.Fetch # FetchNone /\ fieldSet.HasBuffer
    THEN IF \E k \in 1..Len(f.buffers) : f.buffers[k].BufferId = fieldSet.BufferID
         THEN fetchedData(f.node.Fetch.Fetches, fieldSet.BufferID)
         ELSE NoData
    ELSE f.data
\* lines 517-526: the brace or comma and the field's name
fieldOpened(pair, first, name) ==
    [pair EXCEPT !.Data = @ \o <<IF first THEN lBrace ELSE comma, quote, name, quote, colon>>]
\* lines 538-550: after the last FieldSet
objectClosed(p, f) ==
    IF f.first
    THEN IF ~f.node.Nullable
         THEN Left(p, f, IF f.typeNameSkip THEN errTypeNameSkipped
                         ELSE errNonNullableFieldValueIsNull)
         ELSE Left(wrote(p, f.buf, resolveNull(p.pairs[f.buf])), f, nil)
    ELSE Left(wrote(p, f.buf, [p.pairs[f.buf] EXCEPT !.Data = writeSafe(nil, @, rBrace)]),
              f, nil)
\* lines 495-527: the next FieldSet, its type condition and its field
PoolObjectFieldSet ==
    /\ stack # <<>>
    /\ top.fn = "resolveObject"
    /\ top.pc = "fieldSet"
    /\ IF top.i > Len(top.node.FieldSets)
       THEN objectClosed(Pool, top)
       ELSE IF TypeNameSkip(top.node.FieldSets[top.i],
                            fieldSetDataOf(top, top.node.FieldSets[top.i]))
       THEN Continued(Pool, [top EXCEPT !.typeNameSkip = TRUE, !.i = @ + 1])
       ELSE Entered(wrote(Pool, top.buf,
                         fieldOpened(bufPairs[top.buf], top.first,
                                     top.node.FieldSets[top.i].Fields[1].Name)),
                   [top EXCEPT !.first = FALSE, !.pc = "field"],
                   resolveNodeCall(top.node.FieldSets[top.i].Fields[1].Value,
                                   fieldSetDataOf(top, top.node.FieldSets[top.i]),
                                   top.own[1]))

\* line 536: MergeBufPairs(fieldBuf, objectBuf, false) has returned m
fieldMerged(p, f, m) ==
    Continued(wrote(wrote(p, f.own[1], m.from), f.buf, m.to),
              [f EXCEPT !.pc = "fieldSet", !.i = @ + 1])
\* lines 528-536: the field's value has returned
PoolObjectField ==
    /\ stack # <<>>
    /\ top.fn = "resolveObject"
    /\ top.pc = "field"
    /\ IF top.ret # nil
       THEN IF top.ret = errNonNullableFieldValueIsNull /\ top.node.Nullable
            THEN Left(wrote(Pool, top.buf, [bufPairs[top.buf] EXCEPT !.Data = <<null>>]),
                      top, nil)
            ELSE Left(Pool, top, top.ret)
       ELSE fieldMerged(Pool, top, MergeBufPairs(bufPairs[top.own[1]], bufPairs[top.buf], FALSE))

\* lines 565-566 and 575 of resolveFetch: the next preparedInput
PoolFetchInput ==
    /\ stack # <<>>
    /\ top.fn = "resolveFetch"
    /\ top.pc = "start"
    /\ \E id \in Gettable(Pool) :
         Continued(gotBufPair(Pool, id),
                   [top EXCEPT !.preparedInput = id, !.pc = "prepare",
                               !.own = IF top.node.FetchKind = "Single" THEN <<id>> ELSE @])

\* lines 567-570 and 576-580: prepareSingleFetch has returned e
fetchPrepared(p, f, e) ==
    IF prepareFailed(e) THEN Left(p, f, e)
    ELSE IF f.node.FetchKind = "Single" THEN Continued(p, [f EXCEPT !.pc = "load"])
    ELSE Continued(p, [f EXCEPT !.slice = Append(@, f.preparedInput), !.i = @ + 1,
                                !.pc = IF f.i = Len(f.node.Fetches) THEN "spawn"
                                       ELSE "start"])
\* lines 601-605 of prepareSingleFetch, r being what Render returned and id
\* the pair getBufPair returned
inputRendered(p, f, r, id) ==
    fetchPrepared(gotBufPair(wrote(p, f.preparedInput,
                                   [p.pairs[f.preparedInput] EXCEPT !.Data = r.out]), id),
                  [f EXCEPT !.buffers = bufferStored(@, f.node.Fetches[f.i].BufferId, id)],
                  r.err)
PoolFetchPrepare ==
    /\ stack # <<>>
    /\ top.fn = "resolveFetch"
    /\ top.pc = "prepare"
    /\ \E id \in Gettable(Pool) :
         inputRendered(Pool, top,
                       Render(top.node.Fetches[top.i].InputTemplate, 1, ctx, top.data,
                              bufPairs[top.preparedInput].Data),
                       id)

\* Load of a DataSource into a pair of the pool, whose Data holds bytes
loaded(ds, pair) == BufPair(pair.Data \o JsonBytes(ds.data), pair.Errors \o ds.errors)
\* line 571: resolveSingleFetch of the SingleFetch
PoolFetchLoad ==
    /\ stack # <<>>
    /\ top.fn = "resolveFetch"
    /\ top.pc = "load"
    /\ Left(wrote(Pool, bufferOf(top.buffers, top.node.Fetches[1].BufferId),
                  loaded(top.node.Fetches[1].DataSource,
                         bufPairs[bufferOf(top.buffers, top.node.Fetches[1].BufferId)])),
            top, top.node.Fetches[1].DataSource.err)

\* lines 591-596: a worker has loaded, f.items being the workers that have;
\* after the last of them wg.Wait() returns
workerLoaded(p, f) ==
    IF Len(f.items) = Len(f.node.Fetches) THEN Left(p, f, nil) ELSE Continued(p, f)
\* lines 584-593: a worker of the ParallelFetch loads, its error dropped
PoolFetchWorker ==
    /\ stack # <<>>
    /\ top.fn = "resolveFetch"
    /\ top.pc = "spawn"
    /\ \E i \in 1..Len(top.node.Fetches) :
         /\ \A k \in 1..Len(top.items) : top.items[k] # i
         /\ workerLoaded(wrote(Pool, bufferOf(top.buffers, top.node.Fetches[i].BufferId),
                               loaded(top.node.Fetches[i].DataSource,
                                      bufPairs[bufferOf(top.buffers,
                                                        top.node.Fetches[i].BufferId)])),
                         [top EXCEPT !.items = Append(@, i)])

\* lines 304-327 of resolveArray: the items, f.items, have been collected
arrayItemsCollected(p, f) ==
    IF Len(f.items) = 0
    THEN IF ~f.node.Nullable
         THEN Left(p, f, errNonNullableFieldValueIsNull)
         ELSE Left(wrote(p, f.buf, resolveNull(p.pairs[f.buf])), f, nil)
    ELSE IF f.node.ResolveAsynchronous
    THEN Continued(wrote(p, f.buf, [p.pairs[f.buf] EXCEPT !.Data = writeSafe(nil, @, lBrack)]),
                   [f EXCEPT !.fn = "resolveArrayAsynchronous", !.pc = "spawn"])
    ELSE Continued(p, [f EXCEPT !.fn = "resolveArraySynchronous", !.pc = "itemBuf"])
PoolArray ==
    /\ stack # <<>>
    /\ top.fn = "resolveArray"
    /\ arrayItemsCollected(Pool, [top EXCEPT !.items = ArrayEach(top.data, top.node.Path)])

\* lines 331-334 of resolveArraySynchronous: itemBuf and the bracket
PoolArrayItemBuf ==
    /\ stack # <<>>
    /\ top.fn = "resolveArraySynchronous"
    /\ top.pc = "itemBuf"
    /\ \E id \in Gettable(Pool) :
         Continued(wrote(gotBufPair(Pool, id), top.buf,
                         [bufPairs[top.buf] EXCEPT !.Data = writeSafe(nil, @, lBrack)]),
                   [top EXCEPT !.own = <<id>>, !.pc = "item"])

\* lines 339-340 and 358: the next item, or the closing bracket
PoolArrayItem ==
    /\ stack # <<>>
    /\ top.fn = "resolveArraySynchronous"
    /\ top.pc = "item"
    /\ IF top.i > Len(top.items)
       THEN Left(wrote(Pool, top.buf,
                       [bufPairs[top.buf] EXCEPT !.Data = writeSafe(nil, @, rBrack)]),
                 top, nil)
       ELSE Entered(Pool, [top EXCEPT !.pc = "merge"],
                   resolveNodeCall(top.node.Item[1], top.items[top.i], top.own[1]))

\* lines 352-355: MergeBufPairs(itemBuf, arrayBuf, hasPreviousItem) has
\* returned m; f.first is !hasPreviousItem
itemMerged(p, f, m) ==
    Continued(wrote(wrote(p, f.own[1], m.from), f.buf, m.to),
              [f EXCEPT !.first = @ /\ m.dataWritten = 0, !.pc = "item", !.i = @ + 1])
\* lines 341-355: the item has returned
PoolArrayMerge ==
    /\ stack # <<>>
    /\ top.fn = "resolveArraySynchronous"
    /\ top.pc = "merge"
    /\ IF top.ret # nil
       THEN IF top.ret = errNonNullableFieldValueIsNull /\ top.node.Nullable
            THEN Left(wrote(Pool, top.buf, [bufPairs[top.buf] EXCEPT !.Data = <<null>>]),
                      top, nil)
            ELSE IF top.ret = errTypeNameSkipped
            THEN Continued(Pool, [top EXCEPT !.pc = "item", !.i = @ + 1])
            ELSE Left(Pool, top, top.ret)
       ELSE itemMerged(Pool, top,
                       MergeBufPairs(bufPairs[top.own[1]], bufPairs[top.buf], ~top.first))

\* lines 376-378 of resolveArrayAsynchronous: the next itemBuf
PoolArraySpawn ==
    /\ stack # <<>>
    /\ top.fn = "resolveArrayAsynchronous"
    /\ top.pc = "spawn"
    /\ \E id \in Gettable(Pool) :
         Continued(gotBufPair(Pool, id),
                   [top EXCEPT !.slice = Append(@, id),
                               !.pc = IF Len(top.slice) + 1 = Len(top.items) THEN "go"
                                      ELSE "spawn"])

\* lines 380-381: the worker of the next item calls resolveNode; the workers
\* run one after the other
PoolArrayWorker ==
    /\ stack # <<>>
    /\ top.fn = "resolveArrayAsynchronous"
    /\ top.pc = "go"
    /\ Entered(Pool, [top EXCEPT !.pc = "send"],
              resolveNodeCall(top.node.Item[1], top.items[top.i], top.slice[top.i]))

\* lines 381-387: the worker's item has returned; errCh keeps the first
\* error sent
PoolArraySend ==
    /\ stack # <<>>
    /\ top.fn = "resolveArrayAsynchronous"
    /\ top.pc = "send"
    /\ Continued(Pool,
                 [top EXCEPT !.err = IF @ = nil /\ top.ret # errTypeNameSkipped
                                     THEN top.ret ELSE @,
                             !.i = @ + 1,
                             !.pc = IF top.i = Len(top.items) THEN "wait" ELSE "go"])

\* lines 410-415: every item buffer merged into arrayBuf
RECURSIVE itemsMerged(_, _, _, _)
itemBufMerged(p, f, i, first, m) ==
    itemsMerged(wrote(wrote(p, f.slice[i], m.from), f.buf, m.to), f, i + 1,
                first /\ m.dataWritten = 0)
itemsMerged(p, f, i, first) ==
    IF i > Len(f.slice)
    THEN wrote(p, f.buf, [p.pairs[f.buf] EXCEPT !.Data = writeSafe(nil, @, rBrack)])
    ELSE itemBufMerged(p, f, i, first,
                       MergeBufPairs(p.pairs[f.slice[i]], p.pairs[f.buf], ~first))
\* lines 390-417: after wg.Wait()
PoolArrayWait ==
    /\ stack # <<>>
    /\ top.fn = "resolveArrayAsynchronous"
    /\ top.pc = "wait"
    /\ IF top.err # nil
       THEN IF top.err = errNonNullableFieldValueIsNull /\ top.node.Nullable
            THEN Left(wrote(Pool, top.buf, [bufPairs[top.buf] EXCEPT !.Data = <<null>>]),
                      top, nil)
            ELSE Left(Pool, top, top.err)
       ELSE Left(itemsMerged(Pool, top, 1, TRUE), top, nil)

\* The plans of the requests: a scalar field, an array field resolved in
\* either way, and a field of a fetched buffer.
PoolFetches ==
    {FetchSingle(SingleFetch(0, ds, FALSE, t)) :
       ds \in FetchDataSources("s0"),
       t \in InputTemplates \cup {Query \o <<VariableSegment("Unknown", <<"id">>)>>}}
    \cup {FetchParallel(<<SingleFetch(0, DataSource("s0", UpstreamObject, <<>>, nil), FALSE, Query),
                          SingleFetch(1, ds, FALSE, t)>>) :
            ds \in FetchDataSources("s1"), t \in InputTemplates}
PoolPlans ==
    {Object(n, <<>>, <<FieldSet(<<>>, 0, FALSE, <<Field("name", l)>>)>>, FetchNone) :
       n \in OptBool, l \in Leaves}
    \cup {Object(FALSE, <<>>, <<FieldSet(<<>>, 0, FALSE, <<Field("items", a)>>)>>, FetchNone) :
            a \in {Array(n, <<"items">>, async, Integer(<<>>, i)) :
                     n \in OptBool, async \in BOOLEAN, i \in OptBool}}
    \cup {Object(TRUE, <<>>, <<FieldSet(<<>>, 0, TRUE, <<Field("name", l)>>)>>, f) :
            l \in Leaves, f \in PoolFetches}

InitPool ==
    /\ response \in PoolPlans
    /\ upstream = NoData
    /\ ctx = Context(NoData, Identity(MaxItems), <<0, 1>>)
    /\ pc = "start"
    /\ writer = <<>>
    /\ err = nil
    /\ log = <<>>
    /\ ArrayIdle
    /\ PoolIdle
    /\ FlightIdle
    /\ FetchIdle
    /\ ErrorIdle
    /\ TransformIdle

NextPool ==
    \/ PoolRequest
    \/ PoolResponse
    \/ PoolScalar
    \/ PoolObjectFetch
    \/ PoolObjectFetched
    \/ PoolObjectFieldBuf
    \/ PoolObjectFieldSet
    \/ PoolObjectField
    \/ PoolFetchInput
    \/ PoolFetchPrepare
    \/ PoolFetchLoad
    \/ PoolFetchWorker
    \/ PoolArray
    \/ PoolArrayItemBuf
    \/ PoolArrayItem
    \/ PoolArrayMerge
    \/ PoolArraySpawn
    \/ PoolArrayWorker
    \/ PoolArraySend
    \/ PoolArrayWait

\* The pools of one Resolver: requests that take their BufPairs from
\* bufPairPool, or callers of resolveSingleFetch that share the BufPair of
\* an inflight record.
InitPools == InitPool \/ InitShared
StepPool == caller = <<>> /\ NextPool
NextPools == StepPool \/ StepShared
SpecPools == InitPools /\ [][NextPools]_vars

\* C36: every BufPair in bufPairPool has an empty data buffer and an empty
\* errors buffer, so a pair is empty when getBufPair hands it out, and every
\* inflight record in its pool has an empty shared BufPair; this holds
\* after any sequence of resolutions, failed ones included.
C36_PooledAreReset ==
    /\ \A id \in bufPairPool : ~HasData(bufPairs[id]) /\ ~HasErrors(bufPairs[id])
    /\ \A rec \in inflightFetchPool :
         ~HasData(inflight[rec].bufPair) /\ ~HasErrors(inflight[rec].bufPair)
\* a failed request has returned, and pairs it wrote to are in the pool
C36_Witness ==
    /\ requests >= 1
    /\ stack = <<>>
    /\ err # nil
    /\ Cardinality(bufPairPool \cap written) >= 2

\* The transformations of a document: registered and applied in sorted
\* order, applied repeatedly, or applied once to a document with inline
\* fragments.
InitAst == InitTransform \/ InitExpand \/ InitFragment
NextAst == NextTransform \/ NextExpand \/ NextFragment
SpecAst == InitAst /\ [][NextAst]_vars

\* the selection set a transformation rewrites
TargetSet(transformation) ==
    IF "selectionSet" \in DOMAIN transformation THEN transformation.selectionSet
    ELSE transformation.parentSelectionSet
\* the slice now holds every entry it held before, at the same index
Kept(before, after) ==
    /\ Len(after) >= Len(before)
    /\ \A k \in 1..Len(before) : after[k] = before[k]
\* application a appended to the flat arrays and rewrote only the refs of
\* the selection set it was registered for
OnlyAppended(a) ==
    /\ Kept(a.before.Selections, a.after.Selections)
    /\ Kept(a.before.InlineFragments, a.after.InlineFragments)
    /\ Len(a.after.SelectionSets) >= Len(a.before.SelectionSets)
    /\ \A k \in 1..Len(a.before.SelectionSets) :
         k # TargetSet(a.transformation)
           => a.after.SelectionSets[k] = a.before.SelectionSets[k]
\* the indices transformation t held before application a denote in a.after
\* what they denoted in a.before
StillDenotes(t, a) ==
    /\ TargetSet(t) \in 1..Len(a.before.SelectionSets)
         => /\ TargetSet(t) \in 1..Len(a.after.SelectionSets)
            /\ TargetSet(t) # TargetSet(a.transformation)
                 => a.after.SelectionSets[TargetSet(t)] = a.before.SelectionSets[TargetSet(t)]
    /\ ("inlineFragment" \in DOMAIN t /\ t.inlineFragment \in 1..Len(a.before.InlineFragments))
         => /\ t.inlineFragment \in 1..Len(a.after.InlineFragments)
            /\ a.after.InlineFragments[t.inlineFragment]
                 = a.before.InlineFragments[t.inlineFragment]
\* C37: every application of a transformation only appends to Selections,
\* SelectionSets and InlineFragments and leaves every existing entry at its
\* index, so the selection-set and inline-fragment indices of the
\* transformations applied after it still denote the same entries.
C37_IndicesStayValid ==
    \A k \in 1..Len(applied) :
        /\ OnlyAppended(applied[k])
        /\ \A j \in (k + 1)..Len(applied) :
             StillDenotes(applied[j].transformation, applied[k])
\* two registered transformations were applied one after the other, the
\* first of them having added entries to all three arrays
C37_Witness ==
    /\ Len(actions) >= 2
    /\ Len(applied) >= 2
    /\ Len(applied[1].after.Selections) > Len(applied[1].before.Selections)
    /\ Len(applied[1].after.SelectionSets) > Len(applied[1].before.SelectionSets)
    /\ Len(applied[1].after.InlineFragments) > Len(applied[1].before.InlineFragments)
    /\ TargetSet(applied[2].transformation) # TargetSet(applied[1].transformation)

\* ------------------------------------------------------ the scalar resolvers
\* One call of resolveNode on a String, Boolean, Integer or Float node:
\* response is the node, upstream the data, b the BufPair it writes into.
ScalarValues ==
    {JStr("x"), JStr("1"), JNum("1"), JNum("1.50"), JBool("true"), JNull,
     JObj(<<>>), JArr(<<>>)}
ScalarData ==
    ScalarValues \cup {JObj(<<KV("v", v)>>) : v \in ScalarValues} \cup {NoData, Unquoted("x")}
ScalarNodes ==
    {Scalar(kind, at, n) : kind \in {"String", "Boolean", "Integer", "Float"},
                           at \in {<<>>, <<"v">>}, n \in OptBool}

InitScalar ==
    /\ response \in ScalarNodes
    /\ upstream \in ScalarData
    /\ ctx = Context(NoData, Identity(MaxItems), <<0, 1>>)
    /\ pc = "scalar"
    /\ writer = <<>>
    /\ err = nil
    /\ log = <<>>
    /\ ArrayIdle
    /\ PoolIdle
    /\ FlightIdle
    /\ FetchIdle
    /\ TransformIdle
    /\ b \in {getBufPair, BufPair(<<lBrace, quote, "v", quote, colon>>, <<ErrorObject("e")>>)}
    /\ message = NilBytes
    /\ locations = NilBytes
    /\ path = NilBytes

\* the resolver has returned r
ScalarReturned(r) ==
    /\ b' = r.buf
    /\ err' = r.err
\* r.resolveNode(ctx, node, data, bufPair) on a scalar node
ResolveScalar ==
    /\ pc = "scalar"
    /\ ScalarReturned(resolveNode(ctx, response, upstream, b))
    /\ pc' = "resolved"
    /\ UNCHANGED <<response, upstream, ctx, writer, log, message, locations, path>>
    /\ UNCHANGED <<arrayVars, flightVars, fetchVars, transformVars>>
    /\ UNCHANGED poolVars

NextScalar == ResolveScalar

SpecScalar == InitScalar /\ [][NextScalar]_vars

\* the JSON type a scalar kind declares
DeclaredType(kind) ==
    CASE kind = "String" -> "String"
      [] kind = "Boolean" -> "Boolean"
      [] OTHER -> "Number"
\* what the source holds at the node's path
AtPath == Get(upstream, response.Path)
Extracted == AtPath.err = nil /\ AtPath.dataType = DeclaredType(response.kind)
\* C38: a call of a scalar resolver whose extraction fails or finds another
\* JSON type appends exactly null and returns no error when the scalar is
\* nullable, and returns NonNullableFieldValueIsNull leaving the BufPair
\* as it was when it is not; otherwise the call appends the source bytes
\* of the value, a string within its double quotes, and returns no error.
C38_ScalarResolvers ==
    [][pc = "scalar" =>
         IF ~Extracted
         THEN IF response.Nullable
              THEN err' = nil /\ b' = [b EXCEPT !.Data = @ \o <<null>>]
              ELSE err' = errNonNullableFieldValueIsNull /\ b' = b
         ELSE err' = nil /\ b' = [b EXCEPT !.Data = @ \o JsonBytes(AtPath.value)]]_vars
\* a String was resolved into a BufPair that held bytes, and gained the
\* quoted value
C38_Witness ==
    /\ pc = "resolved"
    /\ response.kind = "String"
    /\ Extracted
    /\ err = nil
    /\ b.Data = <<lBrace, quote, "v", quote, colon, quote, "x", quote>>

\* Arrays in either mode: a request whose root object has an array field,
\* resolved in one step, or an asynchronous array resolved step by step.
ArrayPlans ==
    {Object(n, <<>>, <<FieldSet(<<>>, 0, FALSE, <<Field("items", a)>>)>>, FetchNone) :
       n \in OptBool,
       a \in {Array(an, <<"items">>, async, item) :
                an \in OptBool, async \in BOOLEAN,
                item \in PlainObjects(<<>>) \cup {Integer(<<>>, i) : i \in OptBool}}}
\* values that are no array
NoArrays == {JStr("x"), JNum("1"), JNull, JObj(<<>>)}
InitArrayField ==
    /\ response \in ArrayPlans
    /\ upstream \in ValueData(response) \cup {JObj(<<KV("items", v)>>) : v \in NoArrays}
                                         \cup {JObj(<<>>)}
    /\ ctx \in {Context(NoData, s, m) : s \in Scheds(response), m \in MapOrders(response)}
    /\ pc = "start"
    /\ writer = <<>>
    /\ err = nil
    /\ log = <<>>
    /\ ArrayIdle
    /\ PoolIdle
    /\ FlightIdle
    /\ FetchIdle
    /\ ErrorIdle
    /\ TransformIdle
\* an asynchronous array called with data that holds no array
InitArrayNoItems ==
    /\ response \in AsyncArrays
    /\ upstream \in NoArrays \cup {NoData}
    /\ ctx = Context(NoData, Identity(MaxItems), <<0, 1>>)
    /\ pc = "start"
    /\ writer = <<>>
    /\ err = nil
    /\ log = <<>>
    /\ ArrayIdle
    /\ PoolIdle
    /\ FlightIdle
    /\ FetchIdle
    /\ ErrorIdle
    /\ TransformIdle
InitArrays == InitArrayField \/ InitArray \/ InitArrayNoItems
StepTree == response.kind = "Object" /\ Resolve
StepItems == response.kind = "Array" /\ NextArray
NextArrays == StepTree \/ StepItems
SpecArrays == InitArrays /\ [][NextArrays]_vars

\* the Array call of log entry e met a source with zero items
ZeroItems(e) == e.kind = "Array" /\ Len(ArrayEach(e.data, e.node.Path)) = 0
\* C39: an Array call whose source has no item (the path is missing, the
\* value is no array, or the array is empty) appends null and returns no
\* error when the array is nullable, and returns
\* NonNullableFieldValueIsNull without writing when it is not; no item
\* worker is spawned for it and no [ is written.
C39_ZeroItems ==
    /\ pc = "done" =>
         \A k \in 1..Len(log) :
             ZeroItems(log[k]) =>
                 IF log[k].Nullable
                 THEN /\ log[k].err = nil
                      /\ Len(log[k].Data) = log[k].pre + 1
                      /\ log[k].Data[log[k].pre + 1] = null
                 ELSE /\ log[k].err = errNonNullableFieldValueIsNull
                      /\ Len(log[k].Data) = log[k].pre
    /\ (response.kind = "Array" /\ Len(ArrayEach(upstream, response.Path)) = 0) =>
         /\ worker = <<>>
         /\ bufSlice = <<>>
         /\ wg = 0
         /\ arrayBuf.Data \in {<<>>, <<null>>}
         /\ pc = "done" => arrayBuf.Data = IF response.Nullable THEN <<null>> ELSE <<>>
\* a nullable array field met an empty array and the request wrote null
\* for it
C39_Witness ==
    /\ pc = "done"
    /\ response.kind = "Object"
    /\ \E k \in 1..Len(log) :
         /\ ZeroItems(log[k])
         /\ log[k].Nullable
         /\ Get(log[k].data, log[k].node.Path).dataType = "Array"
         /\ log[k].err = nil
    /\ writer = <<lBrace>> \o Key("data") \o <<lBrace>> \o Key("items") \o <<null, rBrace, rBrace>>

\* resolveNode has returned an error to ResolveGraphQLResponse, which has
\* yet to return
RootFailed ==
    /\ stack # <<>>
    /\ top.fn = "ResolveGraphQLResponse"
    /\ top.ret # nil
\* C40: when resolveNode returns an error for the root node,
\* ResolveGraphQLResponse returns that error, the caller's writer has
\* received no byte, and the root BufPair is reset and back in bufPairPool.
C40_RootErrorWritesNothing ==
    [][RootFailed =>
         /\ err' = top.ret
         /\ writer' = <<>>
         /\ top.buf \in bufPairPool'
         /\ bufPairs'[top.buf] = BufPair(<<>>, <<>>)]_vars
\* the first request failed after bytes had been written to its root
\* BufPair, the first pair made
C40_Witness ==
    /\ requests = 1
    /\ stack = <<>>
    /\ err # nil
    /\ writer = <<>>
    /\ 1 \in bufPairPool \cap written

====
